---- MODULE Spec2Model ----
(***************************************************************************)
(* Model of the SportsDB metadata generators of meta-manager-config:       *)
(* build_metadata of the Formula 1, Moto3, ISU Grand Prix and NFL          *)
(* generators (round assembly: bulk partition plus per-round fill), the    *)
(* season-description enrichment step and the Formula 1 slot matcher.      *)
(*                                                                         *)
(* Python strings whose content the code inspects (round numbers, event    *)
(* titles, keywords) are sequences of one-character strings; strings that  *)
(* are only copied (slugs, slot titles) are TLA+ strings. Events are the   *)
(* dicts of the JSON payload: the state holds indices into EVENTS.         *)
(***************************************************************************)
EXTENDS Integers, Sequences, FiniteSets, TLC

\* ------------------------------------------------------------------ bounds
\* Largest round number a run is configured with (--matchweek-stop).
MaxRound == 3
\* Largest number of events in the bulk season feed.
MaxFeed == 2
\* Largest number of requests of one run that end in a transport failure.
MaxFailures == 2

\* The last day of the clock.
MaxDay == 8

\* ------------------------------------------------------- python primitives
UpperAlpha == <<"A","B","C","D","E","F","G","H","I","J","K","L","M",
                "N","O","P","Q","R","S","T","U","V","W","X","Y","Z">>
LowerAlpha == <<"a","b","c","d","e","f","g","h","i","j","k","l","m",
                "n","o","p","q","r","s","t","u","v","w","x","y","z">>
DigitChars == <<"0","1","2","3","4","5","6","7","8","9">>

Range(s) == {s[i] : i \in DOMAIN s}

IndexOf(s, c) == CHOOSE i \in DOMAIN s : s[i] = c

\* str.lower() on one character.
LowerChar(c) ==
    IF c \in Range(UpperAlpha) THEN LowerAlpha[IndexOf(UpperAlpha, c)] ELSE c

\* str.lower()
Lower(s) == [i \in 1..Len(s) |-> LowerChar(s[i])]

\* needle in hay (Python substring test)
Contains(hay, needle) ==
    \E i \in 0..(Len(hay) - Len(needle)) :
        SubSeq(hay, i + 1, i + Len(needle)) = needle

\* The texts of the model hold letters, digits and a few separators; the
\* space is the only whitespace in them.
Whitespace == {" "}

\* s.strip(chars)
Strip(s, chars) ==
    LET keep == {p \in DOMAIN s : s[p] \notin chars}
    IN  IF keep = {} THEN <<>>
        ELSE SubSeq(s, CHOOSE p \in keep : \A q \in keep : p <= q,
                       CHOOSE p \in keep : \A q \in keep : q <= p)

\* " ".join([a, b, c])
JoinSpace(a, b, c) == a \o <<" ">> \o b \o <<" ">> \o c

\* Code point order of the characters the model uses (ASCII).
CharOrder == <<" ", "-">> \o DigitChars \o UpperAlpha \o LowerAlpha

\* a < b on Python strings (lexicographic by code point)
RECURSIVE StrLess(_, _)
StrLess(a, b) ==
    IF b = <<>> THEN FALSE
    ELSE IF a = <<>> THEN TRUE
    ELSE IF a[1] = b[1] THEN StrLess(Tail(a), Tail(b))
    ELSE IndexOf(CharOrder, a[1]) < IndexOf(CharOrder, b[1])

\* JSON values of the round fields: null, a string or a number.
NoneV == [t |-> "none", s |-> <<>>, v |-> 0]
StrV(s) == [t |-> "str", s |-> s, v |-> 0]
IntV(n) == [t |-> "int", s |-> <<>>, v |-> n]

\* Python truthiness of such a value (the `or 0` of the partition loop).
Truthy(x) ==
    CASE x.t = "none" -> FALSE
      [] x.t = "str" -> x.s # <<>>
      [] OTHER -> x.v # 0

RECURSIVE DigitsValue(_)
DigitsValue(s) ==
    IF s = <<>> THEN 0
    ELSE 10 * DigitsValue(SubSeq(s, 1, Len(s) - 1))
         + (IndexOf(DigitChars, s[Len(s)]) - 1)

\* int(x): [ok |-> FALSE] stands for ValueError. A string is an optional
\* sign followed by one or more decimal digits.
PyInt(x) ==
    IF x.t = "int" THEN [ok |-> TRUE, n |-> x.v]
    ELSE LET signed == x.s # <<>> /\ x.s[1] \in {"-", "+"}
             body == IF signed THEN Tail(x.s) ELSE x.s
             neg == signed /\ x.s[1] = "-"
         IN  IF body = <<>> \/ \E i \in DOMAIN body : body[i] \notin Range(DigitChars)
             THEN [ok |-> FALSE, n |-> 0]
             ELSE [ok |-> TRUE,
                   n |-> IF neg THEN 0 - DigitsValue(body) ELSE DigitsValue(body)]

\* ------------------------------------------------------------------ events
\* The events a SportsDB payload may hold (dicts of the JSON response).
\* dateEvent is a day number. 1: round 2, sprint weekend; 2, 3: round 1;
\* 4: round 3 as a JSON number, no session keyword; 5: round 0 as a JSON
\* number; 6: non-numeric intRound with a numeric strRound; 7: no intRound
\* and strRound "0". 8..11 are further events of a Formula 1 round: 8 shares
\* its weekend with the sprint 1; 9 has the date of 2; 10 names its session
\* in strEventAlternate only and mentions a sprint in its description; 11
\* has no session keyword and carries a description. 12 is an event of
\* round 1 without any date field: dateEvent 0.
EVENTS == <<
    [intRound |-> StrV(<<"2">>), strRound |-> NoneV,
     strEvent |-> <<"M","i","a","m","i"," ","S","p","r","i","n","t">>,
     strEventAlternate |-> <<>>, strFilename |-> <<>>, strDescriptionEN |-> <<>>,
     dateEvent |-> 3],
    [intRound |-> StrV(<<"1">>), strRound |-> NoneV,
     strEvent |-> <<"I","t","a","l","i","a","n"," ","G","r","a","n","d"," ","P","r","i","x"," ","Q","u","a","l","i","f","y","i","n","g">>,
     strEventAlternate |-> <<>>, strFilename |-> <<>>, strDescriptionEN |-> <<>>,
     dateEvent |-> 6],
    [intRound |-> StrV(<<"1">>), strRound |-> NoneV,
     strEvent |-> <<"I","t","a","l","i","a","n"," ","G","r","a","n","d"," ","P","r","i","x">>,
     strEventAlternate |-> <<>>, strFilename |-> <<>>, strDescriptionEN |-> <<>>,
     dateEvent |-> 7],
    [intRound |-> IntV(3), strRound |-> NoneV,
     strEvent |-> <<"T","e","s","t"," ","D","a","y">>,
     strEventAlternate |-> <<>>, strFilename |-> <<>>, strDescriptionEN |-> <<>>,
     dateEvent |-> 9],
    [intRound |-> IntV(0), strRound |-> NoneV,
     strEvent |-> <<"F","P","1">>,
     strEventAlternate |-> <<>>, strFilename |-> <<>>, strDescriptionEN |-> <<>>,
     dateEvent |-> 1],
    [intRound |-> StrV(<<"a","b","c">>), strRound |-> StrV(<<"2">>),
     strEvent |-> <<"T","e","s","t"," ","D","a","y">>,
     strEventAlternate |-> <<>>, strFilename |-> <<>>, strDescriptionEN |-> <<>>,
     dateEvent |-> 4],
    [intRound |-> NoneV, strRound |-> StrV(<<"0">>),
     strEvent |-> <<"P","r","a","c","t","i","c","e"," ","1">>,
     strEventAlternate |-> <<>>, strFilename |-> <<>>, strDescriptionEN |-> <<>>,
     dateEvent |-> 2],
    [intRound |-> StrV(<<"2">>), strRound |-> NoneV,
     strEvent |-> <<"M","i","a","m","i"," ","G","r","a","n","d"," ","P","r","i","x">>,
     strEventAlternate |-> <<>>, strFilename |-> <<>>,
     strDescriptionEN |-> <<>>,
     dateEvent |-> 5],
    [intRound |-> StrV(<<"1">>), strRound |-> NoneV,
     strEvent |-> <<"I","t","a","l","i","a","n"," ","G","r","a","n","d"," ","P","r","i","x"," ","P","r","a","c","t","i","c","e"," ","1">>,
     strEventAlternate |-> <<>>, strFilename |-> <<>>,
     strDescriptionEN |-> <<>>,
     dateEvent |-> 6],
    [intRound |-> StrV(<<"1">>), strRound |-> NoneV,
     strEvent |-> <<"S","e","s","s","i","o","n"," ","4">>,
     strEventAlternate |-> <<"Q","u","a","l","y">>, strFilename |-> <<>>,
     strDescriptionEN |-> <<"S","p","r","i","n","t">>,
     dateEvent |-> 5],
    [intRound |-> StrV(<<"3">>), strRound |-> NoneV,
     strEvent |-> <<"T","r","a","c","k"," ","W","a","l","k">>,
     strEventAlternate |-> <<>>, strFilename |-> <<>>,
     strDescriptionEN |-> <<"F","a","n","s"," ","w","a","l","k",".">>,
     dateEvent |-> 9],
    [intRound |-> StrV(<<"1">>), strRound |-> NoneV,
     strEvent |-> <<"I","t","a","l","i","a","n"," ","G","r","a","n","d"," ","P","r","i","x"," ","P","r","a","c","t","i","c","e"," ","2">>,
     strEventAlternate |-> <<>>, strFilename |-> <<>>, strDescriptionEN |-> <<>>,
     dateEvent |-> 0]
>>

EventIds == DOMAIN EVENTS

\* Events the bulk season feed may hold.
FeedEvents == 1..7

\* Events a per-round (or repeated season) request may return.
FillEvents == {4}

\* ---------------------------------------------------------- slot templates
STANDARD_WEEKEND_SESSIONS == <<
    [slug |-> "drivers-press-conference", title |-> "Drivers Press Conference",
     keywords |-> <<<<"p","r","e","s","s"," ","c","o","n","f","e","r","e","n","c","e">>,
                    <<"d","r","i","v","e","r","s"," ","p","r","e","s","s">>,
                    <<"m","e","d","i","a"," ","d","a","y">>>>,
     day_offset |-> -2, fallback_slugs |-> <<"race">>,
     summary_hint |->
         "Selected drivers brief the media on car updates and expectations for the weekend."],
    [slug |-> "weekend-warm-up", title |-> "Weekend Warm Up",
     keywords |-> <<<<"w","e","e","k","e","n","d"," ","w","a","r","m">>,
                    <<"w","a","r","m","u","p">>,
                    <<"w","a","r","m","-","u","p">>>>,
     day_offset |-> -2, fallback_slugs |-> <<"drivers-press-conference", "race">>,
     summary_hint |->
         "Preview show covering track walks, tyre choices and evolving weather conditions."],
    [slug |-> "free-practice-1", title |-> "Free Practice 1",
     keywords |-> <<<<"p","r","a","c","t","i","c","e"," ","1">>,
                    <<"f","r","e","e"," ","p","r","a","c","t","i","c","e"," ","1">>,
                    <<"f","p","1">>>>,
     day_offset |-> -2, fallback_slugs |-> <<"race">>,
     summary_hint |->
         "Opening practice hour focused on systems checks and baseline setup work."],
    [slug |-> "free-practice-2", title |-> "Free Practice 2",
     keywords |-> <<<<"p","r","a","c","t","i","c","e"," ","2">>,
                    <<"f","r","e","e"," ","p","r","a","c","t","i","c","e"," ","2">>,
                    <<"f","p","2">>>>,
     day_offset |-> -2, fallback_slugs |-> <<"free-practice-1", "race">>,
     summary_hint |->
         "Second practice mirrors race conditions for long-run and tyre evaluation."],
    [slug |-> "free-practice-3", title |-> "Free Practice 3",
     keywords |-> <<<<"p","r","a","c","t","i","c","e"," ","3">>,
                    <<"f","r","e","e"," ","p","r","a","c","t","i","c","e"," ","3">>,
                    <<"f","p","3">>>>,
     day_offset |-> -1, fallback_slugs |-> <<"free-practice-2", "race">>,
     summary_hint |->
         "Final tune-up where teams chase qualifying simulations and outright pace."],
    [slug |-> "pre-qualifying-show", title |-> "Pre Qualifying Show",
     keywords |-> <<<<"p","r","e"," ","q","u","a","l","i","f","y","i","n","g">>,
                    <<"p","r","e","-","q","u","a","l","i","f","y","i","n","g">>>>,
     day_offset |-> -1, fallback_slugs |-> <<"qualifying", "race">>,
     summary_hint |->
         "Build-up show that recaps practice data before knockout qualifying begins."],
    [slug |-> "qualifying", title |-> "Qualifying",
     keywords |-> <<<<"q","u","a","l","i","f","y","i","n","g">>,
                    <<"q","u","a","l","y">>,
                    <<"q","u","a","l","i","f","i","c","a","t","i","o","n">>>>,
     day_offset |-> -1, fallback_slugs |-> <<"race">>,
     summary_hint |->
         "Three-stage knockout session that sets Sunday's grid for the Grand Prix."],
    [slug |-> "post-qualifying-show", title |-> "Post Qualifying Show",
     keywords |-> <<<<"p","o","s","t"," ","q","u","a","l","i","f","y","i","n","g">>,
                    <<"p","o","s","t","-","q","u","a","l","i","f","y","i","n","g">>>>,
     day_offset |-> -1, fallback_slugs |-> <<"qualifying", "race">>,
     summary_hint |->
         "Immediate reaction, interviews and technical analysis after qualifying."],
    [slug |-> "pre-race-show", title |-> "Pre Race Show",
     keywords |-> <<<<"p","r","e"," ","r","a","c","e">>,
                    <<"p","r","e","-","r","a","c","e">>>>,
     day_offset |-> 0, fallback_slugs |-> <<"race">>,
     summary_hint |->
         "Grid walk coverage with final strategy talk before lights out."],
    [slug |-> "race", title |-> "Race",
     keywords |-> <<<<"r","a","c","e">>,
                    <<"g","r","a","n","d"," ","p","r","i","x">>>>,
     day_offset |-> 0, fallback_slugs |-> <<"qualifying">>,
     summary_hint |->
         "Full Grand Prix distance deciding the championship points haul."],
    [slug |-> "post-race-show", title |-> "Post Race Show",
     keywords |-> <<<<"p","o","s","t"," ","r","a","c","e">>,
                    <<"p","o","s","t","-","r","a","c","e">>>>,
     day_offset |-> 0, fallback_slugs |-> <<"race">>,
     summary_hint |->
         "Podium ceremonies, driver interviews and parc fermé debriefs."]
>>

SPRINT_WEEKEND_SESSIONS == <<
    [slug |-> "drivers-press-conference", title |-> "Drivers Press Conference",
     keywords |-> <<<<"p","r","e","s","s"," ","c","o","n","f","e","r","e","n","c","e">>,
                    <<"d","r","i","v","e","r","s"," ","p","r","e","s","s">>,
                    <<"m","e","d","i","a"," ","d","a","y">>>>,
     day_offset |-> -2, fallback_slugs |-> <<"race">>,
     summary_hint |->
         "Selected drivers brief the media on car updates and expectations for the weekend."],
    [slug |-> "weekend-warm-up", title |-> "Weekend Warm Up",
     keywords |-> <<<<"w","e","e","k","e","n","d"," ","w","a","r","m">>,
                    <<"w","a","r","m","u","p">>,
                    <<"w","a","r","m","-","u","p">>>>,
     day_offset |-> -2, fallback_slugs |-> <<"drivers-press-conference", "race">>,
     summary_hint |->
         "Preview show covering track walks, tyre choices and evolving weather conditions."],
    [slug |-> "free-practice-1", title |-> "Free Practice 1",
     keywords |-> <<<<"p","r","a","c","t","i","c","e"," ","1">>,
                    <<"f","r","e","e"," ","p","r","a","c","t","i","c","e"," ","1">>,
                    <<"f","p","1">>>>,
     day_offset |-> -2, fallback_slugs |-> <<"race">>,
     summary_hint |->
         "Only practice session before the sprint shootout, vital for rapid setup work."],
    [slug |-> "sprint-qualifying", title |-> "Sprint Qualifying",
     keywords |-> <<<<"s","p","r","i","n","t"," ","q","u","a","l","i","f","y","i","n","g">>,
                    <<"s","p","r","i","n","t"," ","s","h","o","o","t","o","u","t">>>>,
     day_offset |-> -1, fallback_slugs |-> <<"free-practice-1", "race">>,
     summary_hint |->
         "Short sprint shootout that sets the grid for Saturday's sprint race."],
    [slug |-> "pre-sprint-show", title |-> "Pre Sprint Show",
     keywords |-> <<<<"p","r","e"," ","s","p","r","i","n","t">>,
                    <<"p","r","e","-","s","p","r","i","n","t">>>>,
     day_offset |-> -1, fallback_slugs |-> <<"sprint", "sprint-qualifying">>,
     summary_hint |->
         "Studio build-up covering sprint strategies, tyre allocations and weather."],
    [slug |-> "sprint", title |-> "Sprint",
     keywords |-> <<<<"s","p","r","i","n","t">>,
                    <<"s","p","r","i","n","t"," ","r","a","c","e">>>>,
     day_offset |-> -1, fallback_slugs |-> <<"sprint-qualifying", "qualifying", "race">>,
     summary_hint |->
         "100km dash awarding points to the top eight and shaping the weekend narrative."],
    [slug |-> "post-sprint-show", title |-> "Post Sprint Show",
     keywords |-> <<<<"p","o","s","t"," ","s","p","r","i","n","t">>,
                    <<"p","o","s","t","-","s","p","r","i","n","t">>>>,
     day_offset |-> -1, fallback_slugs |-> <<"sprint", "qualifying">>,
     summary_hint |->
         "Analysis and driver interviews immediately after the sprint finish."],
    [slug |-> "pre-qualifying-show", title |-> "Pre Qualifying Show",
     keywords |-> <<<<"p","r","e"," ","q","u","a","l","i","f","y","i","n","g">>,
                    <<"p","r","e","-","q","u","a","l","i","f","y","i","n","g">>>>,
     day_offset |-> -2, fallback_slugs |-> <<"qualifying", "sprint">>,
     summary_hint |->
         "Reset before traditional qualifying that locks in the Grand Prix grid."],
    [slug |-> "qualifying", title |-> "Qualifying",
     keywords |-> <<<<"q","u","a","l","i","f","y","i","n","g">>,
                    <<"q","u","a","l","y">>,
                    <<"q","u","a","l","i","f","i","c","a","t","i","o","n">>>>,
     day_offset |-> -2, fallback_slugs |-> <<"sprint", "race">>,
     summary_hint |->
         "Knockout qualifying held after the sprint to define Sunday's start order."],
    [slug |-> "post-qualifying-show", title |-> "Post Qualifying Show",
     keywords |-> <<<<"p","o","s","t"," ","q","u","a","l","i","f","y","i","n","g">>,
                    <<"p","o","s","t","-","q","u","a","l","i","f","y","i","n","g">>>>,
     day_offset |-> -2, fallback_slugs |-> <<"qualifying", "race">>,
     summary_hint |->
         "Reactions and technical analysis once the Grand Prix grid is finalised."],
    [slug |-> "pre-race-show", title |-> "Pre Race Show",
     keywords |-> <<<<"p","r","e"," ","r","a","c","e">>,
                    <<"p","r","e","-","r","a","c","e">>>>,
     day_offset |-> 0, fallback_slugs |-> <<"race">>,
     summary_hint |->
         "Grid walk coverage with final strategy talk before lights out."],
    [slug |-> "race", title |-> "Race",
     keywords |-> <<<<"r","a","c","e">>,
                    <<"g","r","a","n","d"," ","p","r","i","x">>>>,
     day_offset |-> 0, fallback_slugs |-> <<"qualifying">>,
     summary_hint |->
         "Full Grand Prix distance deciding the championship points haul."],
    [slug |-> "post-race-show", title |-> "Post Race Show",
     keywords |-> <<<<"p","o","s","t"," ","r","a","c","e">>,
                    <<"p","o","s","t","-","r","a","c","e">>>>,
     day_offset |-> 0, fallback_slugs |-> <<"race">>,
     summary_hint |->
         "Podium ceremonies, driver interviews and parc fermé debriefs."]
>>

\* ------------------------------------------------------------ round numbers
\* Formula 1 / Moto3 partition loop: int(event.get("intRound") or 0), a
\* ValueError or a zero drops the event. [keep |-> FALSE] is `continue`.
IntRoundOf(e) ==
    LET raw == IF Truthy(e.intRound) THEN e.intRound ELSE IntV(0)
        p == PyInt(raw)
    IN  [keep |-> p.ok /\ p.n # 0, n |-> p.n]

\* `value in (None, "", "0")` of _round_number_from_event: a JSON number
\* equals none of the three.
SkippedCandidate(x) ==
    \/ x.t = "none"
    \/ x.t = "str" /\ x.s \in {<<>>, <<"0">>}

\* ISU / NFL _round_number_from_event: the first of intRound, strRound that
\* is not skipped and parses. [keep |-> FALSE] is None.
_round_number_from_event(e) ==
    LET usable(x) == ~SkippedCandidate(x) /\ PyInt(x).ok
    IN  IF usable(e.intRound) THEN [keep |-> TRUE, n |-> PyInt(e.intRound).n]
        ELSE IF usable(e.strRound) THEN [keep |-> TRUE, n |-> PyInt(e.strRound).n]
        ELSE [keep |-> FALSE, n |-> 0]

\* The generators whose module defines _round_number_from_event.
HasRoundHelper(g) == g \in {"isu", "nfl"}

\* The two round numbers of every event of EVENTS, computed once.
IntRoundById == [i \in EventIds |-> IntRoundOf(EVENTS[i])]

HelperRoundById == [i \in EventIds |-> _round_number_from_event(EVENTS[i])]

\* The round number the partition loop of generator g gives event id i.
PartitionRound(g, i) ==
    IF HasRoundHelper(g) THEN HelperRoundById[i] ELSE IntRoundById[i]

\* ------------------------------------------------------------------- dicts
\* A Python dict round -> list of events: the items in insertion order.
DictKeys(d) == [i \in 1..Len(d) |-> d[i].k]

DictHas(d, k) == \E i \in DOMAIN d : d[i].k = k

\* d.get(k), with None as the empty list (the code only tests truthiness)
DictGet(d, k) ==
    IF DictHas(d, k) THEN d[CHOOSE i \in DOMAIN d : d[i].k = k].v ELSE <<>>

\* d[k] = v
DictSet(d, k, v) ==
    IF DictHas(d, k)
    THEN [i \in 1..Len(d) |-> IF d[i].k = k THEN [k |-> k, v |-> v] ELSE d[i]]
    ELSE Append(d, [k |-> k, v |-> v])

\* d.setdefault(k, []).append(x)
DictAppendTo(d, k, x) == DictSet(d, k, Append(DictGet(d, k), x))

\* Range check that forgets the upper end of the range.
InRangeNoUpper(n, start, stop) == ~(n < start)

\* range check of the partition loop
InRange(n, start, stop) == ~(n < start \/ n > stop)

\* The partition loop over the bulk feed.
RECURSIVE PartitionEvents(_, _, _, _, _)
PartitionEvents(g, feed, start, stop, d) ==
    IF feed = <<>> THEN d
    ELSE LET r == PartitionRound(g, Head(feed))
             d2 == IF r.keep /\ InRange(r.n, start, stop)
                   THEN DictAppendTo(d, r.n, Head(feed))
                   ELSE d
         IN  PartitionEvents(g, Tail(feed), start, stop, d2)

\* sorted(keys): ascending insertion sort
RECURSIVE SortInts(_)
SortInts(s) ==
    IF s = <<>> THEN <<>>
    ELSE LET rest == SortInts(Tail(s))
             x == Head(s)
             lo == SelectSeq(rest, LAMBDA y : y < x)
             hi == SelectSeq(rest, LAMBDA y : ~(y < x))
         IN  lo \o <<x>> \o hi

\* Iteration in dict insertion order instead of sorted order.
InsertionOrderRounds(d) == DictKeys(d)

\* sorted(events_by_round)
SortedRounds(d) == SortInts(DictKeys(d))

\* ------------------------------------------------------------ fetch helpers
\* fetch_round_events once _fetch_json has answered with `payload` (the
\* "events" of the response): status "ok" with the events returned, or
\* "NameError" where the module lacks _round_number_from_event and the
\* comprehension evaluates its condition.
RoundFilter(g, payload, r) ==
    SelectSeq(payload, LAMBDA i :
        LET n == HelperRoundById[i] IN n.keep /\ n.n = r)

fetch_round_events(g, is_v2, payload, r) ==
    IF ~is_v2 THEN [status |-> "ok", events |-> payload]
    ELSE IF HasRoundHelper(g) THEN [status |-> "ok", events |-> RoundFilter(g, payload, r)]
    ELSE IF payload = <<>> THEN [status |-> "ok", events |-> <<>>]
    ELSE [status |-> "NameError", events |-> <<>>]

\* ------------------------------------------------- Formula 1 slot matching
\* The date of the clock, a day number.
VARIABLE today

\* _date_from_event: the parsed dateEvent, and the date of the clock
\* (datetime.utcnow().date()) for an event without a parseable dateEvent,
\* dateEventLocal or strTimestamp, which EVENTS writes as dateEvent 0.
_date_from_event(i) == IF EVENTS[i].dateEvent = 0 THEN today ELSE EVENTS[i].dateEvent

\* (event.get("strEvent") or "").lower(), per event
LowerName == [i \in EventIds |-> Lower(EVENTS[i].strEvent)]

\* _fixture_sort_key(a) < _fixture_sort_key(b): (date, lower-cased name)
FixtureKeyLess(a, b) ==
    \/ _date_from_event(a) < _date_from_event(b)
    \/ /\ _date_from_event(a) = _date_from_event(b)
       /\ StrLess(LowerName[a], LowerName[b])

\* fixtures.sort(key=_fixture_sort_key): list.sort is stable
RECURSIVE SortFixtures(_)
SortFixtures(s) ==
    IF s = <<>> THEN <<>>
    ELSE LET rest == SortFixtures(Tail(s))
             x == Head(s)
             lo == SelectSeq(rest, LAMBDA y : FixtureKeyLess(y, x))
             hi == SelectSeq(rest, LAMBDA y : ~FixtureKeyLess(y, x))
         IN  lo \o <<x>> \o hi

\* The keyword tuples of both templates.
AllKeywords ==
    {STANDARD_WEEKEND_SESSIONS[j].keywords : j \in DOMAIN STANDARD_WEEKEND_SESSIONS}
    \cup {SPRINT_WEEKEND_SESSIONS[j].keywords : j \in DOMAIN SPRINT_WEEKEND_SESSIONS}

\* The haystack of _match_session_event and whether any keyword is in it.
MatchHaystack(i) ==
    Lower(JoinSpace(EVENTS[i].strEvent, EVENTS[i].strEventAlternate,
                    EVENTS[i].strFilename))

KeywordHit == [i \in EventIds |-> [kws \in AllKeywords |->
    \E k \in DOMAIN kws : Contains(MatchHaystack(i), Lower(kws[k]))]]

\* A scan that keeps the last event with a keyword in its text.
MatchLastEvent(events, keywords) ==
    IF \E p \in DOMAIN events : KeywordHit[events[p]][keywords]
    THEN events[CHOOSE p \in DOMAIN events :
                    /\ KeywordHit[events[p]][keywords]
                    /\ \A q \in (p + 1)..Len(events) : ~KeywordHit[events[q]][keywords]]
    ELSE 0

\* _match_session_event: the first event of `events` with a keyword in its
\* text, 0 for None.
_match_session_event(events, keywords) ==
    IF \E p \in DOMAIN events : KeywordHit[events[p]][keywords]
    THEN events[CHOOSE p \in DOMAIN events :
                    /\ KeywordHit[events[p]][keywords]
                    /\ \A q \in 1..(p - 1) : ~KeywordHit[events[q]][keywords]]
    ELSE 0

SprintWord == <<"s","p","r","i","n","t">>

SprintHit == [i \in EventIds |->
    Contains(Lower(JoinSpace(EVENTS[i].strEvent, EVENTS[i].strEventAlternate,
                             EVENTS[i].strDescriptionEN)), SprintWord)]

\* _is_sprint_weekend
_is_sprint_weekend(events) == \E p \in DOMAIN events : SprintHit[events[p]]

WordChar(c) == c \in Range(LowerAlpha) \cup Range(UpperAlpha) \cup Range(DigitChars) \cup {"_"}

\* re.search(r"\bfp\d\b", title)
FpSearch(title) ==
    \E p \in 1..(Len(title) - 2) :
        /\ title[p] = "f" /\ title[p + 1] = "p" /\ title[p + 2] \in Range(DigitChars)
        /\ (p = 1 \/ ~WordChar(title[p - 1]))
        /\ (p + 2 = Len(title) \/ ~WordChar(title[p + 3]))

\* The rank of `priority` in _select_primary_event.
PriorityRank == [i \in EventIds |->
    LET title == LowerName[i]
        is_practice == Contains(title, <<"p","r","a","c","t","i","c","e">>) \/ FpSearch(title)
        is_sprint == Contains(title, SprintWord)
        is_qualifying == Contains(title, <<"q","u","a","l","i","f","y","i","n","g">>) /\ ~is_sprint
        is_race == \/ Contains(title, <<"r","a","c","e">>)
                   \/ /\ Contains(title, <<"g","r","a","n","d"," ","p","r","i","x">>)
                      /\ ~(is_practice \/ is_qualifying \/ is_sprint)
    IN  IF is_race THEN 0
        ELSE IF is_qualifying THEN 1
        ELSE IF is_sprint THEN 2
        ELSE IF is_practice THEN 3
        ELSE 4]

PriorityLess(a, b) ==
    \/ PriorityRank[a] < PriorityRank[b]
    \/ PriorityRank[a] = PriorityRank[b] /\ _date_from_event(a) < _date_from_event(b)

\* The first event of the list, whatever its priority.
FirstFixture(events) == IF events = <<>> THEN 0 ELSE events[1]

\* _select_primary_event: min(events, key=priority), the first minimum; 0 for None.
_select_primary_event(events) ==
    IF events = <<>> THEN 0
    ELSE events[CHOOSE p \in DOMAIN events :
                    /\ \A q \in DOMAIN events : ~PriorityLess(events[q], events[p])
                    /\ \A q \in 1..(p - 1) : PriorityLess(events[p], events[q])]

\* session_plan of a round
SessionPlan(fixtures) ==
    IF _is_sprint_weekend(fixtures) THEN SPRINT_WEEKEND_SESSIONS
    ELSE STANDARD_WEEKEND_SESSIONS

\* matched_events.get(slug) after the direct-match pass (setdefault keeps the
\* first slot of a slug); 0 for None.
MatchedGet(plan, fixtures, slug) ==
    LET hit(j) == plan[j].slug = slug
                  /\ _match_session_event(fixtures, plan[j].keywords) # 0
    IN  IF \E j \in DOMAIN plan : hit(j)
        THEN _match_session_event(fixtures,
                 plan[CHOOSE j \in DOMAIN plan :
                          hit(j) /\ \A h \in 1..(j - 1) : ~hit(h)].keywords)
        ELSE 0

\* The dict matched_events once `for slot in session_plan` has run over the
\* slots j..Len(plan): slug -> event, in insertion order.
RECURSIVE MatchedEvents(_, _, _, _)
MatchedEvents(plan, fixtures, j, matched) ==
    IF j > Len(plan) THEN matched
    ELSE LET match == _match_session_event(fixtures, plan[j].keywords)
         IN  MatchedEvents(plan, fixtures, j + 1,
                 IF match # 0 /\ ~DictHas(matched, plan[j].slug)
                 THEN Append(matched, [k |-> plan[j].slug, v |-> match])
                 ELSE matched)

\* A fallback loop without its `break`: the last fallback slug with a match
\* wins.
RECURSIVE FallbackSourceNoBreak(_, _, _)
FallbackSourceNoBreak(plan, fixtures, slugs) ==
    IF slugs = <<>> THEN 0
    ELSE IF FallbackSourceNoBreak(plan, fixtures, Tail(slugs)) # 0
         THEN FallbackSourceNoBreak(plan, fixtures, Tail(slugs))
         ELSE MatchedGet(plan, fixtures, Head(slugs))

\* The fallback loop: the last lookup made, stopping at the first hit.
RECURSIVE FallbackSource(_, _, _)
FallbackSource(plan, fixtures, slugs) ==
    IF slugs = <<>> THEN 0
    ELSE IF MatchedGet(plan, fixtures, Head(slugs)) # 0
         THEN MatchedGet(plan, fixtures, Head(slugs))
         ELSE FallbackSource(plan, fixtures, Tail(slugs))

\* A walk that goes on into the fallback slugs of a fallback slot that has
\* no match itself, for at most `fuel` lookups.
RECURSIVE ChainedLookups(_, _, _, _)
ChainedLookups(plan, fixtures, slugs, fuel) ==
    IF slugs = <<>> \/ fuel = 0 THEN 0
    ELSE IF MatchedGet(plan, fixtures, Head(slugs)) # 0 THEN 1
    ELSE LET named == {j \in DOMAIN plan : plan[j].slug = Head(slugs)}
             deeper == IF named = {} THEN <<>>
                       ELSE plan[CHOOSE j \in named : TRUE].fallback_slugs
         IN  1 + ChainedLookups(plan, fixtures, deeper \o Tail(slugs), fuel - 1)

FallbackLookupsChained(plan, fixtures, slugs) ==
    ChainedLookups(plan, fixtures, slugs, 2 * Len(plan))

\* The lookups `matched_events.get(fallback_slug)` the fallback loop makes:
\* one per fallback slug up to the first with a match.
RECURSIVE FallbackLookups(_, _, _)
FallbackLookups(plan, fixtures, slugs) ==
    IF slugs = <<>> THEN 0
    ELSE IF MatchedGet(plan, fixtures, Head(slugs)) # 0 THEN 1
    ELSE 1 + FallbackLookups(plan, fixtures, Tail(slugs))

\* The fallback lookups made for every slot of the round: none for a slot
\* with a match of its own.
SlotLookups(fixtures) ==
    LET plan == SessionPlan(fixtures)
    IN  [j \in DOMAIN plan |->
            IF MatchedGet(plan, fixtures, plan[j].slug) # 0 THEN 0
            ELSE FallbackLookups(plan, fixtures, plan[j].fallback_slugs)]

\* source_event of a slot: own match, fallback, primary event, or 0 for {}.
SourceEvent(plan, fixtures, slot) ==
    LET own == MatchedGet(plan, fixtures, slot.slug)
        fb == IF own = 0 THEN FallbackSource(plan, fixtures, slot.fallback_slugs) ELSE own
    IN  IF fb = 0 THEN _select_primary_event(fixtures) ELSE fb

\* The earliest date of the round instead of the latest.
RaceDateEarliest(fixtures) ==
    CHOOSE d \in {_date_from_event(fixtures[p]) : p \in DOMAIN fixtures} :
        \A p \in DOMAIN fixtures : d <= _date_from_event(fixtures[p])

\* max(dates)
RaceDate(fixtures) ==
    CHOOSE d \in {_date_from_event(fixtures[p]) : p \in DOMAIN fixtures} :
        \A p \in DOMAIN fixtures : _date_from_event(fixtures[p]) <= d

\* A summary that closes with the description or else the generic sentence.
SessionSummaryWithoutHint(slot, event) ==
    LET description == IF event = 0 THEN <<>>
                       ELSE Strip(EVENTS[event].strDescriptionEN, Whitespace)
    IN  IF description # <<>>
        THEN [closing |-> "description", description |-> description]
        ELSE [closing |-> "generic", description |-> <<>>]

\* _session_summary, its last sentence: the event's description, else the
\* slot's summary_hint, else the generic sentence ("Additional broadcast
\* details will be filled once ..."). event 0 is the empty dict.
_session_summary(slot, event) ==
    LET description == IF event = 0 THEN <<>>
                       ELSE Strip(EVENTS[event].strDescriptionEN, Whitespace)
    IN  IF description # <<>>
        THEN [closing |-> "description", description |-> description]
        ELSE IF slot.summary_hint # ""
        THEN [closing |-> "summary_hint", description |-> <<>>]
        ELSE [closing |-> "generic", description |-> <<>>]

\* One episode dict of the episode loop.
Episode(plan, fixtures, j) ==
    [index |-> j,
     title |-> plan[j].title,
     originally_available |-> RaceDate(fixtures) + plan[j].day_offset,
     source_event |-> SourceEvent(plan, fixtures, plan[j]),
     summary |-> _session_summary(plan[j], SourceEvent(plan, fixtures, plan[j]))]

\* Episode loop that leaves out the slots without a direct match.
RECURSIVE EpisodeLoopSkipsUnmatched(_, _, _, _)
EpisodeLoopSkipsUnmatched(plan, fixtures, j, episodes) ==
    IF j > Len(plan) THEN episodes
    ELSE EpisodeLoopSkipsUnmatched(plan, fixtures, j + 1,
             IF MatchedGet(plan, fixtures, plan[j].slug) # 0
             THEN Append(episodes, Episode(plan, fixtures, j))
             ELSE episodes)

\* for index, slot in enumerate(session_plan, start=1): episodes.append(...)
RECURSIVE EpisodeLoop(_, _, _, _)
EpisodeLoop(plan, fixtures, j, episodes) ==
    IF j > Len(plan) THEN episodes
    ELSE EpisodeLoop(plan, fixtures, j + 1,
                     Append(episodes, Episode(plan, fixtures, j)))

\* The episodes of one round.
BuildEpisodes(fixtures) == EpisodeLoop(SessionPlan(fixtures), fixtures, 1, <<>>)

\* ----------------------------------------------------------- round titles
\* The class [\s\-,:] of both suffix patterns, without the two long dashes.
SuffixSeparators == Whitespace \cup {"-", ",", ":"}

\* The argument of str.strip(" -,:"), without the two long dashes.
StripChars == {" ", "-", ",", ":"}

\* The positions a pattern item can end at (one past its last character)
\* when it starts at one of the positions P of s: a literal, an optional
\* literal, \s+, \s*, [\s\-,:]* or \d+.
MatchItem(s, P, item) ==
    LET run(C, least) ==
            {q \in 1..(Len(s) + 1) :
                \E p \in P : /\ p + least <= q
                             /\ \A x \in p..(q - 1) : s[x] \in C}
        word == {p + Len(item.w) : p \in
                    {q \in P : /\ q + Len(item.w) - 1 <= Len(s)
                               /\ SubSeq(s, q, q + Len(item.w) - 1) = item.w}}
    IN  CASE item.k = "lit" -> word
          [] item.k = "opt" -> P \cup word
          [] item.k = "ws+" -> run(Whitespace, 1)
          [] item.k = "ws*" -> run(Whitespace, 0)
          [] item.k = "sep*" -> run(SuffixSeparators, 0)
          [] item.k = "d+" -> run(Range(DigitChars), 1)

\* The end positions of a sequence of items started at the positions P.
RECURSIVE MatchItems(_, _, _)
MatchItems(s, P, items) ==
    IF items = <<>> THEN P
    ELSE MatchItems(s, MatchItem(s, P, Head(items)), Tail(items))

\* The alternatives of SESSION_SUFFIX_RE between `[\s\-,:]*(?:` and `)$`.
SESSION_SUFFIX_RE == <<
    <<[k |-> "lit", w |-> <<"f","r","e","e">>],
      [k |-> "ws+", w |-> <<>>],
      [k |-> "lit", w |-> <<"p","r","a","c","t","i","c","e">>],
      [k |-> "ws*", w |-> <<>>],
      [k |-> "d+", w |-> <<>>]>>,
    <<[k |-> "lit", w |-> <<"p","r","a","c","t","i","c","e">>],
      [k |-> "ws*", w |-> <<>>],
      [k |-> "d+", w |-> <<>>]>>,
    <<[k |-> "lit", w |-> <<"f","p">>],
      [k |-> "d+", w |-> <<>>]>>,
    <<[k |-> "lit", w |-> <<"d","r","i","v","e","r">>],
      [k |-> "opt", w |-> <<"s">>],
      [k |-> "ws+", w |-> <<>>],
      [k |-> "lit", w |-> <<"p","r","e","s","s">>],
      [k |-> "ws+", w |-> <<>>],
      [k |-> "lit", w |-> <<"c","o","n","f","e","r","e","n","c","e">>]>>,
    <<[k |-> "lit", w |-> <<"w","e","e","k","e","n","d">>],
      [k |-> "ws+", w |-> <<>>],
      [k |-> "lit", w |-> <<"w","a","r","m">>],
      [k |-> "ws*", w |-> <<>>],
      [k |-> "opt", w |-> <<"-">>],
      [k |-> "ws*", w |-> <<>>],
      [k |-> "lit", w |-> <<"u","p">>]>>,
    <<[k |-> "lit", w |-> <<"s","p","r","i","n","t">>],
      [k |-> "ws+", w |-> <<>>],
      [k |-> "lit", w |-> <<"q","u","a","l","i","f","y","i","n","g">>]>>,
    <<[k |-> "lit", w |-> <<"s","p","r","i","n","t">>]>>,
    <<[k |-> "lit", w |-> <<"q","u","a","l","i","f","y","i","n","g">>]>>,
    <<[k |-> "lit", w |-> <<"p","r","e">>],
      [k |-> "ws+", w |-> <<>>],
      [k |-> "lit", w |-> <<"q","u","a","l","i","f","y","i","n","g">>],
      [k |-> "ws+", w |-> <<>>],
      [k |-> "lit", w |-> <<"s","h","o","w">>]>>,
    <<[k |-> "lit", w |-> <<"p","o","s","t">>],
      [k |-> "ws+", w |-> <<>>],
      [k |-> "lit", w |-> <<"q","u","a","l","i","f","y","i","n","g">>],
      [k |-> "ws+", w |-> <<>>],
      [k |-> "lit", w |-> <<"s","h","o","w">>]>>,
    <<[k |-> "lit", w |-> <<"p","r","e">>],
      [k |-> "ws+", w |-> <<>>],
      [k |-> "lit", w |-> <<"r","a","c","e">>],
      [k |-> "ws+", w |-> <<>>],
      [k |-> "lit", w |-> <<"s","h","o","w">>]>>,
    <<[k |-> "lit", w |-> <<"p","o","s","t">>],
      [k |-> "ws+", w |-> <<>>],
      [k |-> "lit", w |-> <<"r","a","c","e">>],
      [k |-> "ws+", w |-> <<>>],
      [k |-> "lit", w |-> <<"s","h","o","w">>]>>
>>

\* The alternatives of sprint_suffix in _clean_round_title, each with the
\* `\s*` that precedes `$`.
sprint_suffix == <<
    <<[k |-> "lit", w |-> <<"s","p","r","i","n","t">>],
      [k |-> "ws*", w |-> <<>>]>>,
    <<[k |-> "lit", w |-> <<"s","p","r","i","n","t">>],
      [k |-> "ws*", w |-> <<>>],
      [k |-> "lit", w |-> <<"r","a","c","e">>],
      [k |-> "ws*", w |-> <<>>]>>,
    <<[k |-> "lit", w |-> <<"g","p">>],
      [k |-> "ws*", w |-> <<>>],
      [k |-> "lit", w |-> <<"s","p","r","i","n","t">>],
      [k |-> "ws*", w |-> <<>>]>>,
    <<[k |-> "lit", w |-> <<"s","p","r","i","n","t">>],
      [k |-> "ws*", w |-> <<>>],
      [k |-> "lit", w |-> <<"g","p">>],
      [k |-> "ws*", w |-> <<>>]>>
>>

Reverse(s) == [i \in 1..Len(s) |-> s[Len(s) + 1 - i]]

\* A pattern read from its end: the alternatives with their items, and the
\* letters of their literals, in reverse order, followed by `[\s\-,:]*`.
Backwards(pattern) ==
    [a \in DOMAIN pattern |->
        [i \in 1..Len(pattern[a]) |->
            [k |-> pattern[a][Len(pattern[a]) + 1 - i].k,
             w |-> Reverse(pattern[a][Len(pattern[a]) + 1 - i].w)]]
        \o <<[k |-> "sep*", w |-> <<>>]>>]

SESSION_SUFFIX_BACKWARDS == Backwards(SESSION_SUFFIX_RE)

sprint_suffix_backwards == Backwards(sprint_suffix)

\* The positions of title where `[\s\-,:]*(?:alternatives)$` matches, the
\* pattern compiled with re.IGNORECASE. Every match ends at the end of the
\* title, so the title is scanned from its end.
SuffixStarts(backwards, title) ==
    LET s == Reverse(Lower(title))
    IN  {Len(s) + 2 - e : e \in UNION {MatchItems(s, {1}, backwards[a]) :
                                          a \in DOMAIN backwards}}

\* pattern.sub("", title): the leftmost match reaches the end of the title
\* and is removed.
PatternSub(backwards, title) ==
    LET starts == SuffixStarts(backwards, title)
    IN  IF starts = {} THEN title
        ELSE SubSeq(title, 1, (CHOOSE i \in starts : \A j \in starts : i <= j) - 1)

\* The statements of _clean_round_title before its loop.
CleanPrologue(raw_title) ==
    Strip(PatternSub(sprint_suffix_backwards, Strip(raw_title, Whitespace)), StripChars)

\* A strip that finds no session suffix in any title.
SessionStripKeepsRest(title) == title

\* `stripped = SESSION_SUFFIX_RE.sub("", title).strip(" -,:")`
SessionStrip(title) == Strip(PatternSub(SESSION_SUFFIX_BACKWARDS, title), StripChars)

\* `while True: ... if stripped == title: break; title = stripped`
RECURSIVE StripLoop(_)
StripLoop(title) ==
    IF SessionStrip(title) = title THEN title ELSE StripLoop(SessionStrip(title))

\* _clean_round_title
_clean_round_title(raw_title, fallback) ==
    IF raw_title = <<>> THEN fallback
    ELSE LET title == StripLoop(CleanPrologue(raw_title))
         IN  IF title = <<>> THEN fallback ELSE title

\* ------------------------------------------------------------------- state
VARIABLES
    gen,             \* which generator runs: "f1", "moto3", "isu", "nfl"
    is_v2,           \* SportsDBSettings.is_v2
    args,            \* the parsed command line
    pc,              \* position in build_metadata
    context,         \* the SSL context in use: "verified" or "unverified"
    events,          \* the bulk season feed
    season_summary,  \* "None" or "description"
    events_by_round, \* dict round -> list of events
    round_number,    \* loop variable of the fill loop
    seasons,         \* the season entries built so far
    show_summary,    \* summary of the returned document
    error,           \* the exception build_metadata raised, "none" if none
    failures,        \* requests that ended in a transport failure so far
    trace,           \* requests, sleeps and warnings in program order
    call,            \* a helper called on its own: its arguments
    ret              \* the locals and the result of that call

vars == <<gen, is_v2, args, pc, context, events, season_summary, events_by_round,
          round_number, seasons, show_summary, error, failures, trace, call, ret,
          today>>

\* The variables of a run of build_metadata.
run_vars == <<gen, is_v2, args, pc, context, events, season_summary,
              events_by_round, round_number, seasons, show_summary, error,
              failures, trace>>

\* The days the clock can show; the events of EVENTS are dated from day 1.
Days == 5..MaxDay

FirstDay == CHOOSE d \in Days : \A e \in Days : d <= e

\* No helper is called on its own.
NoCall == [op |-> "none"]

Generators == {"f1", "moto3", "isu", "nfl"}

\* --matchweek-start / --matchweek-stop pairs a run is configured with.
Ranges == {<<1, MaxRound>>, <<0, 1>>, <<2, 1>>}

RECURSIVE IncreasingSeqs(_, _)
IncreasingSeqs(lo, n) ==
    IF n = 0 THEN {<<>>}
    ELSE {<<>>} \cup UNION {{<<i>> \o t : t \in IncreasingSeqs(i + 1, n - 1)} :
                              i \in {x \in FeedEvents : x >= lo}}

\* Season feeds: the listed events in feed order, at most MaxFeed of them.
Feeds == IncreasingSeqs(1, MaxFeed)

\* A run that takes every failure for a failure under verification.
VerifyAlways == TRUE

\* `verify_ssl = not args.insecure`
verify_ssl == ~args.insecure

\* One entry of the trace.
Entry(op, r, ctx, status, payload) ==
    [op |-> op, round |-> r, ctx |-> ctx, status |-> status, payload |-> payload,
     result |-> <<>>]

Init ==
    /\ gen \in Generators
    /\ is_v2 \in BOOLEAN
    /\ \E rg \in Ranges :
           args \in [insecure : BOOLEAN,
                     skip_matchweek_fill : BOOLEAN,
                     matchweek_delay : {0, 1},
                     matchweek_start : {rg[1]},
                     matchweek_stop : {rg[2]}]
    /\ pc = "fetch_season"
    /\ context = IF args.insecure THEN "unverified" ELSE "verified"
    /\ events = <<>>
    /\ season_summary = "None"
    /\ events_by_round = <<>>
    /\ round_number = 0
    /\ seasons = <<>>
    /\ show_summary = "unset"
    /\ error = "none"
    /\ failures = 0
    /\ trace = <<>>
    /\ call = NoCall
    /\ ret = NoCall
    /\ today = FirstDay

\* What _fetch_json may answer: a transport failure (URLError) or a payload.
Failure == [fail |-> TRUE, payload |-> <<>>]
Answer(p) == [fail |-> FALSE, payload |-> p]

Raise(exc) == pc' = "raised" /\ error' = exc

\* The transport failures of an attempt and its retry, within the bound.
Failed(first, second) ==
    LET n == (IF first.fail THEN 1 ELSE 0)
             + (IF first.fail /\ verify_ssl /\ second.fail THEN 1 ELSE 0)
    IN  failures + n <= MaxFailures /\ failures' = failures + n

\* The answers to the retry without verification: it is issued only after a
\* transport failure under verify_ssl.
RetryAnswers(first, answers) ==
    IF first.fail /\ verify_ssl THEN answers ELSE {first}

\* ----------------------------------------------------------------- actions
SeasonAnswers == {Failure} \cup {Answer(f) : f \in Feeds}

\* Where build_metadata goes once the bulk feed is in hand: the Formula 1
\* generator has no season-description step.
AfterSeason == IF gen = "f1" THEN "partition" ELSE "describe"

\* fetch_season_events with its try/except: a URLError is retried once without
\* verification when verify_ssl, and is a RuntimeError otherwise; an empty
\* feed is a RuntimeError.
FetchSeason ==
    /\ pc = "fetch_season"
    /\ \E first \in SeasonAnswers : \E second \in RetryAnswers(first, SeasonAnswers) :
        /\ Failed(first, second)
        /\ LET e1 == Entry("season", 0, context, IF first.fail THEN "URLError" ELSE "ok",
                           first.payload)
               e2 == Entry("season", 0, "unverified",
                           IF second.fail THEN "URLError" ELSE "ok", second.payload)
           IN  \/ /\ ~first.fail /\ first.payload # <<>>
                  /\ events' = first.payload
                  /\ trace' = Append(trace, e1)
                  /\ pc' = AfterSeason
                  /\ UNCHANGED <<context, error>>
               \/ /\ ~first.fail /\ first.payload = <<>>
                  /\ trace' = Append(trace, e1)
                  /\ Raise("RuntimeError")
                  /\ UNCHANGED <<context, events>>
               \/ /\ first.fail /\ ~verify_ssl
                  /\ trace' = Append(trace, e1)
                  /\ Raise("RuntimeError")
                  /\ UNCHANGED <<context, events>>
               \/ /\ first.fail /\ verify_ssl
                  /\ context' = "unverified"
                  /\ trace' = trace \o <<e1, e2>>
                  /\ \/ /\ ~second.fail /\ second.payload # <<>>
                        /\ events' = second.payload
                        /\ pc' = AfterSeason
                        /\ UNCHANGED error
                     \/ /\ ~second.fail /\ second.payload = <<>>
                        /\ Raise("RuntimeError")
                        /\ UNCHANGED events
                     \/ /\ second.fail
                        /\ Raise("URLError")
                        /\ UNCHANGED events
    /\ UNCHANGED <<call, ret, today>>
    /\ UNCHANGED <<gen, is_v2, args, season_summary, events_by_round, round_number,
                   seasons, show_summary>>

\* fetch_season_description_text answers a description or None.
DescribeAnswers ==
    {[fail |-> TRUE, payload |-> "None"], Answer("None"), Answer("description")}

\* The season-description step (ISU, Moto3, NFL): a URLError is retried once
\* without verification when verify_ssl (that retry is outside any try), and
\* is a warning otherwise.
Describe ==
    /\ pc = "describe"
    /\ \E first \in DescribeAnswers : \E second \in RetryAnswers(first, DescribeAnswers) :
        /\ Failed(first, second)
        /\ LET e1 == Entry("describe", 0, context,
                           IF first.fail THEN "URLError" ELSE "ok", <<>>)
               e2 == Entry("describe", 0, "unverified",
                           IF second.fail THEN "URLError" ELSE "ok", <<>>)
           IN  \/ /\ ~first.fail
                  /\ season_summary' = first.payload
                  /\ trace' = Append(trace, e1)
                  /\ pc' = "partition"
                  /\ UNCHANGED <<context, error>>
               \/ /\ first.fail /\ ~verify_ssl
                  /\ trace' = trace \o <<e1, Entry("warning", 0, context, "URLError", <<>>)>>
                  /\ pc' = "partition"
                  /\ UNCHANGED <<context, error, season_summary>>
               \/ /\ first.fail /\ verify_ssl
                  /\ context' = "unverified"
                  /\ trace' = trace \o <<e1, e2>>
                  /\ \/ /\ ~second.fail
                        /\ season_summary' = second.payload
                        /\ pc' = "partition"
                        /\ UNCHANGED error
                     \/ /\ second.fail
                        /\ Raise("URLError")
                        /\ UNCHANGED season_summary
    /\ UNCHANGED <<call, ret, today>>
    /\ UNCHANGED <<gen, is_v2, args, events, events_by_round, round_number,
                   seasons, show_summary>>

\* Fill guard that ignores --skip-matchweek-fill.
FillEnabledIgnoresSkip == args.matchweek_stop >= args.matchweek_start

\* `not args.skip_matchweek_fill and args.matchweek_stop >= args.matchweek_start`
FillEnabled ==
    ~args.skip_matchweek_fill /\ args.matchweek_stop >= args.matchweek_start

\* The partition loop over the bulk feed, up to the test that guards the fill.
Partition ==
    /\ pc = "partition"
    /\ events_by_round' = PartitionEvents(gen, events, args.matchweek_start,
                                          args.matchweek_stop, <<>>)
    /\ IF FillEnabled
       THEN pc' = "fill" /\ round_number' = args.matchweek_start
       ELSE pc' = "build" /\ round_number' = round_number
    /\ UNCHANGED <<call, ret, today>>
    /\ UNCHANGED <<gen, is_v2, args, context, events, season_summary, seasons,
                   show_summary, error, failures, trace>>

\* Fill loop that fetches every round of the range.
NeedsFetchAlways(d, r) == TRUE

\* `if events_by_round.get(round_number): continue`, negated
NeedsFetch(d, r) == DictGet(d, r) = <<>>

\* `if round_events: events_by_round[round_number] = round_events`
StoreRound(d, r, round_events) ==
    IF round_events # <<>> THEN DictSet(d, r, round_events) ELSE d

\* Delay that is also waited after the last round of the range.
ShouldSleepAfterLast(r) == args.matchweek_delay > 0

\* `if args.matchweek_delay > 0 and round_number < args.matchweek_stop`
ShouldSleep(r) == args.matchweek_delay > 0 /\ r < args.matchweek_stop

\* Payloads the round endpoint (v1) or the repeated season request (v2) holds.
RoundPayloads == {<<>>} \cup {<<i>> : i \in FillEvents}

RoundAnswers == {Failure} \cup {Answer(p) : p \in RoundPayloads}

\* One call of fetch_round_events for round r, given _fetch_json's answer.
Attempt(ans, r) ==
    IF ans.fail THEN [status |-> "URLError", events |-> <<>>]
    ELSE fetch_round_events(gen, is_v2, ans.payload, r)

RoundEntry(r, ctx, ans, a) ==
    [Entry("round", r, ctx, a.status, ans.payload) EXCEPT !.result = a.events]

\* Next iteration of `for round_number in range(start, stop + 1)`, or the
\* statements after the loop.
Advance(r) ==
    IF r < args.matchweek_stop
    THEN pc' = "fill" /\ round_number' = r + 1
    ELSE pc' = "build" /\ round_number' = r

\* The rest of an iteration once round_events is bound.
Complete(r, round_events, tr) ==
    /\ events_by_round' = StoreRound(events_by_round, r, round_events)
    /\ trace' = IF ShouldSleep(r)
                THEN Append(tr, Entry("sleep", r, "-", "ok", <<>>))
                ELSE tr
    /\ Advance(r)
    /\ error' = error

\* A failed round that is skipped instead of aborting the run.
AbortSkipsRound(exc, tr) ==
    /\ trace' = tr
    /\ Advance(round_number)
    /\ UNCHANGED <<events_by_round, error>>

\* An exception leaves the loop.
Abort(exc, tr) ==
    /\ Raise(exc)
    /\ trace' = tr
    /\ UNCHANGED <<events_by_round, round_number>>

\* One iteration of the fill loop.
FillRound ==
    /\ pc = "fill"
    /\ LET r == round_number
       IN  \/ /\ ~NeedsFetch(events_by_round, r)
              /\ Advance(r)
              /\ UNCHANGED <<events_by_round, trace, context, error, failures>>
           \/ /\ NeedsFetch(events_by_round, r)
              /\ \E first \in RoundAnswers : \E second \in RetryAnswers(first, RoundAnswers) :
                  /\ Failed(first, second)
                  /\ LET a1 == Attempt(first, r)
                         a2 == Attempt(second, r)
                         e1 == RoundEntry(r, context, first, a1)
                         e2 == RoundEntry(r, "unverified", second, a2)
                     IN  \/ /\ a1.status = "ok"
                            /\ Complete(r, a1.events, Append(trace, e1))
                            /\ UNCHANGED context
                         \/ /\ a1.status = "NameError"
                            /\ Abort("NameError", Append(trace, e1))
                            /\ UNCHANGED context
                         \/ /\ a1.status = "URLError" /\ ~verify_ssl
                            /\ Abort("RuntimeError", Append(trace, e1))
                            /\ UNCHANGED context
                         \/ /\ a1.status = "URLError" /\ verify_ssl
                            /\ context' = "unverified"
                            /\ \/ /\ a2.status = "ok"
                                  /\ Complete(r, a2.events, trace \o <<e1, e2>>)
                               \/ /\ a2.status # "ok"
                                  /\ Abort(a2.status, trace \o <<e1, e2>>)
    /\ UNCHANGED <<call, ret, today>>
    /\ UNCHANGED <<gen, is_v2, args, events, season_summary, seasons, show_summary>>

\* The body of `for round_number in sorted(events_by_round)` for round r: the
\* round's list sorted in place.
SortedFixtures(d, r) == SortFixtures(DictGet(d, r))

\* The season entry of round r. The episodes are those of the Formula 1
\* generator.
SeasonEntry(d, r) ==
    [number |-> r,
     episodes |-> IF gen = "f1" THEN BuildEpisodes(SortedFixtures(d, r)) ELSE <<>>]

\* The season loop over `order`, the rounds in iteration order.
RECURSIVE SeasonLoop(_, _, _)
SeasonLoop(d, order, out) ==
    IF order = <<>> THEN out
    ELSE SeasonLoop(d, Tail(order), Append(out, SeasonEntry(d, Head(order))))

RECURSIVE SortInPlace(_, _)
SortInPlace(d, order) ==
    IF order = <<>> THEN d
    ELSE SortInPlace(DictSet(d, Head(order), SortedFixtures(d, Head(order))),
                     Tail(order))

\* min(events_by_round), 0 for None: the test `if first_round` takes round 0
\* for None too.
FirstRound(d) ==
    IF d = <<>> THEN 0
    ELSE CHOOSE r \in Range(DictKeys(d)) : \A q \in Range(DictKeys(d)) : r <= q

\* The show artwork is downloaded with the context in use when the first
\* round has an event; a failed download is a warning.
AssetDownloads(d, ctx) ==
    IF FirstRound(d) # 0
    THEN <<Entry("asset", FirstRound(d), ctx, "ok", <<>>)>>
    ELSE <<>>

\* `season_summary or args.summary` (args.summary in the Formula 1 generator)
ShowSummary == IF season_summary # "None" THEN season_summary ELSE "args.summary"

\* The season loop and the return of the metadata document.
BuildSeasons ==
    /\ pc = "build"
    /\ seasons' = SeasonLoop(events_by_round, SortedRounds(events_by_round), <<>>)
    /\ events_by_round' = IF gen = "f1"
                          THEN SortInPlace(events_by_round, SortedRounds(events_by_round))
                          ELSE events_by_round
    /\ show_summary' = ShowSummary
    /\ trace' = trace \o AssetDownloads(events_by_round, context)
    /\ pc' = "done"
    /\ UNCHANGED <<call, ret, today>>
    /\ UNCHANGED <<gen, is_v2, args, context, events, season_summary, round_number,
                   error, failures>>

Next == FetchSeason \/ Describe \/ Partition \/ FillRound \/ BuildSeasons

Spec == Init /\ [][Next]_vars

\* ------------------------------------------- _clean_round_title on its own
\* Largest number of session suffixes appended to a raw title.
MaxSuffixes == 2

\* No run of build_metadata is in progress.
NoRun ==
    /\ gen = "f1"
    /\ is_v2 = FALSE
    /\ args = [insecure |-> FALSE, skip_matchweek_fill |-> TRUE,
               matchweek_delay |-> 0, matchweek_start |-> 1, matchweek_stop |-> 1]
    /\ pc = "idle"
    /\ context = "verified"
    /\ events = <<>>
    /\ season_summary = "None"
    /\ events_by_round = <<>>
    /\ round_number = 0
    /\ seasons = <<>>
    /\ show_summary = "unset"
    /\ error = "none"
    /\ failures = 0
    /\ trace = <<>>
    /\ today = FirstDay

\* Event names without a session suffix, the empty name included.
TitleBases == {
    <<>>,
    <<"M","i","a","m","i">>,
    <<"I","t","a","l","i","a","n"," ","G","r","a","n","d"," ","P","r","i","x">>}

\* Session suffixes as feeds append them to an event name.
TitleSuffixes == {
    <<" ","Q","u","a","l","i","f","y","i","n","g">>,
    <<" ","S","p","r","i","n","t">>,
    <<" ","S","p","r","i","n","t"," ","R","a","c","e">>,
    <<" ","-"," ","F","P","1">>,
    <<" ","P","r","a","c","t","i","c","e"," ","2">>,
    <<":"," ","P","r","e"," ","R","a","c","e"," ","S","h","o","w">>,
    <<" ","W","e","e","k","e","n","d"," ","W","a","r","m","-","U","p">>,
    <<" ","D","r","i","v","e","r","s"," ","P","r","e","s","s"," ","C","o","n","f","e","r","e","n","c","e">>}

RECURSIVE SuffixChains(_)
SuffixChains(n) ==
    IF n = 0 THEN {<<>>}
    ELSE {<<>>} \cup {x \o c : x \in TitleSuffixes, c \in SuffixChains(n - 1)}

\* The raw titles _clean_round_title is called with.
RawTitles == {b \o c : b \in TitleBases, c \in SuffixChains(MaxSuffixes)}

\* f"{args.round_label} {round_number}" for the round labels Round and Practice.
FallbackLabels == {<<"R","o","u","n","d"," ","1">>,
                   <<"P","r","a","c","t","i","c","e"," ","1">>}

CleanCall(raw_title, fallback, pass) ==
    [op |-> "_clean_round_title", raw_title |-> raw_title, fallback |-> fallback,
     pass |-> pass]

CleanLocals(step, title, iterations, result) ==
    [step |-> step, title |-> title, iterations |-> iterations, result |-> result]

InitTitle ==
    /\ NoRun
    /\ \E t \in RawTitles, f \in FallbackLabels : call = CleanCall(t, f, 1)
    /\ ret = CleanLocals("enter", <<>>, 0, <<>>)

\* `if not raw_title: return fallback`, then the statements before the loop.
CleanEnter ==
    /\ call.op = "_clean_round_title" /\ ret.step = "enter"
    /\ ret' = IF call.raw_title = <<>>
              THEN CleanLocals("returned", <<>>, 0, call.fallback)
              ELSE CleanLocals("loop", CleanPrologue(call.raw_title), 0, <<>>)
    /\ UNCHANGED <<call, run_vars, today>>

\* One iteration of `while True`.
CleanIterate ==
    /\ call.op = "_clean_round_title" /\ ret.step = "loop"
    /\ LET stripped == SessionStrip(ret.title)
       IN  ret' = IF stripped = ret.title
                  THEN [ret EXCEPT !.step = "after_loop"]
                  ELSE [ret EXCEPT !.title = stripped,
                                   !.iterations = ret.iterations + 1]
    /\ UNCHANGED <<call, run_vars, today>>

\* `return title or fallback`
CleanReturn ==
    /\ call.op = "_clean_round_title" /\ ret.step = "after_loop"
    /\ ret' = [ret EXCEPT !.step = "returned",
                          !.result = IF ret.title = <<>> THEN call.fallback
                                     ELSE ret.title]
    /\ UNCHANGED <<call, run_vars, today>>

\* _clean_round_title is called on what it returned, with the same fallback.
CleanAgain ==
    /\ call.op = "_clean_round_title" /\ ret.step = "returned" /\ call.pass = 1
    /\ call' = CleanCall(ret.result, call.fallback, 2)
    /\ ret' = CleanLocals("enter", <<>>, 0, <<>>)
    /\ UNCHANGED <<run_vars, today>>

NextTitle == CleanEnter \/ CleanIterate \/ CleanReturn \/ CleanAgain

SpecTitle == InitTitle /\ [][NextTitle]_vars

\* --------------------------------- one Formula 1 round of the season loop
\* Largest number of events of a round.
MaxFixtures == 3

\* The events a Formula 1 round may hold.
RoundEvents == {1, 2, 3, 4, 8, 9, 10, 11}

\* The lists of at most n distinct events, in the order of their payload.
RECURSIVE DistinctSeqs(_, _)
DistinctSeqs(S, n) ==
    IF n = 0 THEN {<<>>}
    ELSE {<<>>} \cup UNION {{<<i>> \o t : t \in DistinctSeqs(S \ {i}, n - 1)} :
                              i \in S}

\* events_by_round[round_number] as round assembly leaves it: never empty.
RoundLists == DistinctSeqs(RoundEvents, MaxFixtures) \ {<<>>}

RoundLocals(step, fixtures, primary_event, event_name, matched_events, episodes) ==
    [step |-> step, fixtures |-> fixtures, primary_event |-> primary_event,
     event_name |-> event_name, matched_events |-> matched_events,
     episodes |-> episodes,
     lookups |-> <<>>]  \* fallback lookups made per slot

InitRound ==
    /\ NoRun
    /\ \E f \in RoundLists, label \in FallbackLabels :
           call = [op |-> "round", fixtures |-> f, fallback |-> label]
    /\ ret = RoundLocals("sort", call.fixtures, 0, <<>>, <<>>, <<>>)

\* `fixtures.sort(key=_fixture_sort_key)`
SortRound ==
    /\ call.op = "round" /\ ret.step = "sort"
    /\ ret' = [ret EXCEPT !.step = "primary",
                          !.fixtures = SortFixtures(ret.fixtures)]
    /\ UNCHANGED <<call, run_vars, today>>

\* primary_event, artwork_event and event_name of the round.
PickPrimary ==
    /\ call.op = "round" /\ ret.step = "primary"
    /\ LET primary_event == _select_primary_event(ret.fixtures)
           artwork_event == IF primary_event # 0 THEN primary_event
                            ELSE IF ret.fixtures # <<>> THEN ret.fixtures[1]
                            ELSE 0
           raw_event_name == IF artwork_event # 0 THEN EVENTS[artwork_event].strEvent
                             ELSE <<>>
       IN  ret' = [ret EXCEPT !.step = "match",
                              !.primary_event = primary_event,
                              !.event_name = _clean_round_title(raw_event_name,
                                                                call.fallback)]
    /\ UNCHANGED <<call, run_vars, today>>

\* The direct-match pass `for slot in session_plan` over the chosen template.
MatchSlots ==
    /\ call.op = "round" /\ ret.step = "match"
    /\ ret' = [ret EXCEPT !.step = "episodes",
                          !.matched_events =
                              MatchedEvents(SessionPlan(ret.fixtures), ret.fixtures,
                                            1, <<>>)]
    /\ UNCHANGED <<call, run_vars, today>>

\* The episode loop of the round.
BuildRoundEpisodes ==
    /\ call.op = "round" /\ ret.step = "episodes"
    /\ ret' = [ret EXCEPT !.step = "done",
                          !.episodes = BuildEpisodes(ret.fixtures),
                          !.lookups = SlotLookups(ret.fixtures)]
    /\ UNCHANGED <<call, run_vars, today>>

NextRound == SortRound \/ PickPrimary \/ MatchSlots \/ BuildRoundEpisodes

SpecRound == InitRound /\ [][NextRound]_vars

\* ------------------------------------------- ISU _derive_round_title alone
\* The sessions of a round and the round title templates tried.
MaxSessions == 3

\* The en dash and the em dash, characters written by name.
EnDash == "en dash"

EmDash == "em dash"

\* The argument of str.strip in _derive_round_title: hyphen, en dash, em
\* dash, comma, colon and blank.
BaseStripChars == StripChars \cup {EnDash, EmDash}

\* SESSION_DESCRIPTOR_SEQUENCES, each word a string of characters.
SESSION_DESCRIPTOR_SEQUENCES == <<
    <<<<"p","a","i","r","s">>>>,
    <<<<"w","o","m","e","n">>>>,
    <<<<"m","e","n">>>>,
    <<<<"i","c","e">>, <<"d","a","n","c","e">>>>,
    <<<<"r","h","y","t","h","m">>, <<"d","a","n","c","e">>>>,
    <<<<"f","r","e","e">>, <<"d","a","n","c","e">>>>,
    <<<<"f","r","e","e">>, <<"s","k","a","t","i","n","g">>>>,
    <<<<"s","h","o","r","t">>, <<"p","r","o","g","r","a","m">>>>,
    <<<<"e","x","h","i","b","i","t","i","o","n">>>>,
    <<<<"g","a","l","a">>>>,
    <<<<"p","r","a","c","t","i","c","e">>>>,
    <<<<"w","a","r","m">>>>,
    <<<<"o","p","e","n","i","n","g">>>>,
    <<<<"c","l","o","s","i","n","g">>>>,
    <<<<"a","w","a","r","d","s">>>>,
    <<<<"c","e","r","e","m","o","n","y">>>> >>

\* Events of the ISU feed: the title fields and the place of the event; a
\* missing field and an empty one are both <<>>.
ISU_EVENTS == <<
    [strEvent |-> <<"S","k","a","t","e"," ","A","m","e","r","i","c","a"," ","-"," ","P","a","i","r","s"," ","S","h","o","r","t"," ","P","r","o","g","r","a","m">>,
     strEventAlternate |-> <<>>, strFilename |-> <<>>,
     strCity |-> <<"A","l","l","e","n">>, strCountry |-> <<"U","S","A">>],
    [strEvent |-> <<"S","k","a","t","e"," ","A","m","e","r","i","c","a"," ","W","o","m","e","n"," ","F","r","e","e"," ","S","k","a","t","i","n","g">>,
     strEventAlternate |-> <<>>, strFilename |-> <<>>,
     strCity |-> <<"A","l","l","e","n">>, strCountry |-> <<"U","S","A">>],
    [strEvent |-> <<"S","k","a","t","e"," ","A","m","e","r","i","c","a"," ","M","e","n"," ","S","h","o","r","t"," ","P","r","o","g","r","a","m">>,
     strEventAlternate |-> <<>>, strFilename |-> <<>>,
     strCity |-> <<>>, strCountry |-> <<>>],
    [strEvent |-> <<"S","k","a","t","e"," ","C","a","n","a","d","a"," ","I","c","e"," ","D","a","n","c","e">>,
     strEventAlternate |-> <<>>, strFilename |-> <<>>,
     strCity |-> <<>>, strCountry |-> <<"C","a","n","a","d","a">>],
    [strEvent |-> <<"N","H","K"," ","T","r","o","p","h","y"," ","M","e","n">>,
     strEventAlternate |-> <<>>, strFilename |-> <<>>,
     strCity |-> <<"T","o","k","y","o">>, strCountry |-> <<>>],
    [strEvent |-> <<"G","a","l","a">>,
     strEventAlternate |-> <<>>, strFilename |-> <<>>,
     strCity |-> <<>>, strCountry |-> <<>>],
    [strEvent |-> <<"D","a","y"," ","1",":">>,
     strEventAlternate |-> <<>>, strFilename |-> <<>>,
     strCity |-> <<>>, strCountry |-> <<>>],
    [strEvent |-> <<"C","u","p"," ","D","a","y">>,
     strEventAlternate |-> <<>>, strFilename |-> <<>>,
     strCity |-> <<>>, strCountry |-> <<>>],
    [strEvent |-> <<>>,
     strEventAlternate |-> <<>>, strFilename |-> <<>>,
     strCity |-> <<"T","u","r","i","n">>, strCountry |-> <<"I","t","a","l","y">>],
    [strEvent |-> <<>>,
     strEventAlternate |-> <<":"," ","G","a","l","a">>, strFilename |-> <<>>,
     strCity |-> <<>>, strCountry |-> <<"J","a","p","a","n">>],
    [strEvent |-> <<>>,
     strEventAlternate |-> <<>>, strFilename |-> <<"G","a","l","a"," ","-"," ","d","a","y">>,
     strCity |-> <<>>, strCountry |-> <<>>] >>

IsuEventIds == DOMAIN ISU_EVENTS

\* re.split(r"\s+", value.strip()) without the empty tokens, from position i
\* with the token being read and the tokens read so far.
RECURSIVE TokensFrom(_, _, _, _)
TokensFrom(value, i, token, tokens) ==
    LET closed == IF token = <<>> THEN tokens ELSE Append(tokens, token)
    IN  IF i > Len(value) THEN closed
        ELSE IF value[i] \in Whitespace
        THEN TokensFrom(value, i + 1, <<>>, closed)
        ELSE TokensFrom(value, i + 1, Append(token, value[i]), tokens)

_tokenize_title(value) == TokensFrom(value, 1, <<>>, <<>>)

\* " ".join(tokens)
RECURSIVE JoinWords(_)
JoinWords(tokens) ==
    IF tokens = <<>> THEN <<>>
    ELSE IF Len(tokens) = 1 THEN tokens[1]
    ELSE tokens[1] \o <<" ">> \o JoinWords(Tail(tokens))

\* The first position (from 1) where a descriptor sequence starts, 0 for
\* None.
_find_descriptor_index(tokens) ==
    LET lowered == [i \in DOMAIN tokens |-> Lower(tokens[i])]
        found == {index \in DOMAIN tokens :
                     \E s \in DOMAIN SESSION_DESCRIPTOR_SEQUENCES :
                         LET sequence == SESSION_DESCRIPTOR_SEQUENCES[s]
                         IN  /\ Len(sequence) + index - 1 <= Len(tokens)
                             /\ SubSeq(lowered, index, index + Len(sequence) - 1)
                                    = sequence}
    IN  IF found = {} THEN 0
        ELSE CHOOSE index \in found : \A other \in found : index <= other

\* The words before the first descriptor; "" when there is no descriptor or
\* the title starts with one.
_strip_session_descriptor(title) ==
    LET tokens == _tokenize_title(title)
        descriptor_index == _find_descriptor_index(tokens)
    IN  IF tokens = <<>> THEN <<>>
        ELSE IF descriptor_index = 0 \/ descriptor_index = 1 THEN <<>>
        ELSE Strip(JoinWords(SubSeq(tokens, 1, descriptor_index - 1)), Whitespace)

\* Digits of a small positive number, as str() gives them.
Str(n) == <<DigitChars[n + 1]>>

\* The title of a session: the first non-blank of the three title fields,
\* stripped, else "Session <index>".
_session_title_from_event(event, fallback_index) ==
    IF Strip(event.strEvent, Whitespace) # <<>> THEN Strip(event.strEvent, Whitespace)
    ELSE IF Strip(event.strEventAlternate, Whitespace) # <<>>
    THEN Strip(event.strEventAlternate, Whitespace)
    ELSE IF Strip(event.strFilename, Whitespace) # <<>>
    THEN Strip(event.strFilename, Whitespace)
    ELSE <<"S","e","s","s","i","o","n"," ">> \o Str(fallback_index)

\* Every session title a round of the feed can have.
SessionTitlesOf ==
    {_session_title_from_event(ISU_EVENTS[i], idx) :
        i \in IsuEventIds, idx \in 1..MaxSessions}

\* _tokenize_title, _strip_session_descriptor and the lower-cased words of
\* the session titles, computed once per title.
TitleTokens == [title \in SessionTitlesOf |-> _tokenize_title(title)]

LoweredTokens ==
    [title \in SessionTitlesOf |->
        [k \in DOMAIN TitleTokens[title] |-> Lower(TitleTokens[title][k])]]

StrippedTitle == [title \in SessionTitlesOf |-> _strip_session_descriptor(title)]

\* The titles that are not blank: [... for title in titles if title.strip()]
Kept(titles) == SelectSeq(titles, LAMBDA title : TitleTokens[title] # <<>>)

\* [_tokenize_title(title) for title in titles if title.strip()]
Tokenized(titles) == [i \in DOMAIN Kept(titles) |-> TitleTokens[Kept(titles)[i]]]

\* The same lists with every word lower-cased.
LoweredLists(titles) == [i \in DOMAIN Kept(titles) |-> LoweredTokens[Kept(titles)[i]]]

\* The smallest of a non-empty set of numbers.
MinOf(S) == CHOOSE n \in S : \A m \in S : n <= m

\* The words of tokenized[1] up to the first position where the lists
\* differ in their lower-cased words, scanning positions idx..min_length.
RECURSIVE CommonFrom(_, _, _, _, _)
CommonFrom(tokenized, lowered, idx, min_length, prefix) ==
    IF idx > min_length THEN prefix
    ELSE IF \A t \in DOMAIN tokenized : lowered[t][idx] = lowered[1][idx]
    THEN CommonFrom(tokenized, lowered, idx + 1, min_length,
                    Append(prefix, tokenized[1][idx]))
    ELSE prefix

_longest_common_word_prefix(titles) ==
    LET tokenized == Tokenized(titles)
    IN  IF titles = <<>> \/ tokenized = <<>> THEN <<>>
        ELSE Strip(JoinWords(CommonFrom(tokenized, LoweredLists(titles), 1,
                       MinOf({Len(tokenized[t]) : t \in DOMAIN tokenized}), <<>>)),
                   Whitespace)

_longest_common_word_suffix(titles) ==
    LET tokenized == Tokenized(titles)
        reversed_tokens == [t \in DOMAIN tokenized |-> Reverse(tokenized[t])]
        reversed_lowered == [t \in DOMAIN tokenized |-> Reverse(LoweredLists(titles)[t])]
    IN  IF titles = <<>> \/ tokenized = <<>> THEN <<>>
        ELSE Strip(JoinWords(Reverse(CommonFrom(reversed_tokens, reversed_lowered, 1,
                       MinOf({Len(reversed_tokens[t]) : t \in DOMAIN reversed_tokens}),
                       <<>>))),
                   Whitespace)

\* The positions where needle starts in hay.
Occurrences(hay, needle) ==
    {i \in 1..(Len(hay) - Len(needle) + 1) :
        SubSeq(hay, i, i + Len(needle) - 1) = needle}

\* The separators of _extract_event_base, in the order tried.
BaseSeparators == << <<" ","-"," ">>, <<" ",EnDash," ">>, <<":">> >>

\* The first non-empty title field up to its first separator (the
\* separators tried in order), stripped; "" for an event without a title.
_extract_event_base(event) ==
    LET raw == IF event.strEvent # <<>> THEN event.strEvent
               ELSE IF event.strEventAlternate # <<>> THEN event.strEventAlternate
               ELSE event.strFilename
        present == {s \in DOMAIN BaseSeparators : Occurrences(raw, BaseSeparators[s]) # {}}
    IN  IF raw = <<>> THEN <<>>
        ELSE IF present = {} THEN Strip(raw, Whitespace)
        ELSE Strip(SubSeq(raw, 1,
                       MinOf(Occurrences(raw, BaseSeparators[MinOf(present)])) - 1),
                   Whitespace)

\* fixtures[0] if fixtures else {}
NoEvent ==
    [strEvent |-> <<>>, strEventAlternate |-> <<>>, strFilename |-> <<>>,
     strCity |-> <<>>, strCountry |-> <<>>]

FirstFixtureOf(fixtures) == IF fixtures = <<>> THEN NoEvent ELSE ISU_EVENTS[fixtures[1]]

\* 'City, Country' of the parts that are not blank.
join_location(city, country) ==
    LET c == Strip(city, Whitespace)
        n == Strip(country, Whitespace)
    IN  IF c # <<>> /\ n # <<>> THEN c \o <<",", " ">> \o n
        ELSE IF c # <<>> THEN c
        ELSE n

\* trimmed_counts after the titles from position i on are counted: a
\* Counter in insertion order.
RECURSIVE TrimmedCounts(_, _, _)
TrimmedCounts(session_titles, i, counts) ==
    IF i > Len(session_titles) THEN counts
    ELSE LET stripped == StrippedTitle[session_titles[i]]
         IN  TrimmedCounts(session_titles, i + 1,
                 IF stripped = <<>> THEN counts
                 ELSE IF DictHas(counts, stripped)
                 THEN [p \in DOMAIN counts |->
                          IF counts[p].k = stripped
                          THEN [k |-> stripped, v |-> counts[p].v + 1]
                          ELSE counts[p]]
                 ELSE Append(counts, [k |-> stripped, v |-> 1]))

\* The key (count, len(name)) of a is below that of b.
CountKeyLess(a, b) == a.v < b.v \/ (a.v = b.v /\ Len(a.k) < Len(b.k))

\* max keyed by the count alone: the first name with the highest count.
MostCommonName(counts) ==
    counts[MinOf({p \in DOMAIN counts :
                     \A q \in DOMAIN counts : counts[q].v <= counts[p].v})].k

\* max(trimmed_counts.items(), key=(count, len(name)))[0]: the first item
\* no other item is above.
MostCommonLongest(counts) ==
    counts[MinOf({p \in DOMAIN counts :
                     \A q \in DOMAIN counts : ~CountKeyLess(counts[p], counts[q])})].k

\* str.format of the round title templates tried: none, or "{event_base}".
RenderTemplate(template, base_name) ==
    IF template = "{event_base}" THEN Strip(base_name, Whitespace) ELSE <<>>

\* The round title templates tried: none, and one that is the base name.
RoundTitleTemplates == {"", "{event_base}"}

\* The rounds handed to _derive_round_title: at most MaxSessions distinct
\* events of the feed in any order, and no event at all.
IsuLists == DistinctSeqs(IsuEventIds, MaxSessions)

\* --round-label
RoundLabel == <<"G","r","a","n","d"," ","P","r","i","x"," ","s","t","o","p">>

\* The locals of the call in hand.
DeriveLocals(step, session_titles, base_name, result) ==
    [step |-> step, session_titles |-> session_titles,
     base_name |-> base_name, result |-> result]

InitDerive ==
    /\ NoRun
    /\ \E f \in IsuLists, template \in RoundTitleTemplates :
           call = [op |-> "derive", fixtures |-> f, round_number |-> Len(f) + 1,
                   round_label |-> RoundLabel, round_title_template |-> template]
    /\ ret = DeriveLocals("titles", <<>>, <<>>, <<>>)

\* The caller lists the session titles of the round's events.
SessionTitles ==
    /\ call.op = "derive" /\ ret.step = "titles"
    /\ ret' = [ret EXCEPT !.step = "count",
                  !.session_titles =
                      [idx \in DOMAIN call.fixtures |->
                          _session_title_from_event(ISU_EVENTS[call.fixtures[idx]], idx)]]
    /\ UNCHANGED <<call, run_vars, today>>

\* The most frequent descriptor-stripped title, the longest among equals.
CountTrimmed ==
    /\ call.op = "derive" /\ ret.step = "count"
    /\ LET trimmed_counts == TrimmedCounts(ret.session_titles, 1, <<>>)
       IN  ret' = [ret EXCEPT !.step = "prefix",
                      !.base_name =
                          IF ret.session_titles # <<>> /\ trimmed_counts # <<>>
                          THEN MostCommonLongest(trimmed_counts)
                          ELSE <<>>]
    /\ UNCHANGED <<call, run_vars, today>>

CommonPrefix ==
    /\ call.op = "derive" /\ ret.step = "prefix"
    /\ ret' = [ret EXCEPT !.step = "suffix",
                  !.base_name =
                      IF ret.session_titles # <<>> /\ ret.base_name = <<>>
                      THEN _longest_common_word_prefix(ret.session_titles)
                      ELSE ret.base_name]
    /\ UNCHANGED <<call, run_vars, today>>

CommonSuffix ==
    /\ call.op = "derive" /\ ret.step = "suffix"
    /\ ret' = [ret EXCEPT !.step = "first",
                  !.base_name =
                      IF ret.session_titles # <<>> /\ ret.base_name = <<>>
                      THEN _longest_common_word_suffix(ret.session_titles)
                      ELSE ret.base_name]
    /\ UNCHANGED <<call, run_vars, today>>

FirstTitle ==
    /\ call.op = "derive" /\ ret.step = "first"
    /\ ret' = [ret EXCEPT !.step = "trim",
                  !.base_name =
                      IF /\ ret.session_titles # <<>>
                         /\ ret.base_name = <<>>
                         /\ Strip(ret.session_titles[1], Whitespace) # <<>>
                      THEN Strip(ret.session_titles[1], Whitespace)
                      ELSE ret.base_name]
    /\ UNCHANGED <<call, run_vars, today>>

\* The name loses the dashes, commas, colons and blanks around it; when
\* nothing is left the base of the first event is taken.
TrimBase ==
    /\ call.op = "derive" /\ ret.step = "trim"
    /\ LET trimmed == IF ret.base_name # <<>>
                      THEN Strip(Strip(ret.base_name, Whitespace), BaseStripChars)
                      ELSE ret.base_name
       IN  ret' = [ret EXCEPT !.step = "render",
                      !.base_name =
                          IF trimmed = <<>>
                          THEN _extract_event_base(FirstFixtureOf(call.fixtures))
                          ELSE trimmed]
    /\ UNCHANGED <<call, run_vars, today>>

\* The template when it renders to something, else the base name, else the
\* round label and number with the location of the first event.
RenderTitle ==
    /\ call.op = "derive" /\ ret.step = "render"
    /\ LET first == FirstFixtureOf(call.fixtures)
           location == join_location(first.strCity, first.strCountry)
           rendered == RenderTemplate(call.round_title_template, ret.base_name)
           numbered == call.round_label \o <<" ">> \o Str(call.round_number)
       IN  ret' = [ret EXCEPT !.step = "done",
                      !.result =
                          IF call.round_title_template # "" /\ rendered # <<>>
                          THEN rendered
                          ELSE IF ret.base_name # <<>> THEN ret.base_name
                          ELSE IF location # <<>>
                          THEN numbered \o <<" ", EnDash, " ">> \o location
                          ELSE numbered]
    /\ UNCHANGED <<call, run_vars, today>>

NextDerive ==
    \/ SessionTitles
    \/ CountTrimmed
    \/ CommonPrefix
    \/ CommonSuffix
    \/ FirstTitle
    \/ TrimBase
    \/ RenderTitle

SpecDerive == InitDerive /\ [][NextDerive]_vars

\* ------------------------------------- build_metadata run twice on one input
\* The events of the feed given to both runs.
TwiceEvents == {2, 3, 8, 12}

TwiceFeeds == DistinctSeqs(TwiceEvents, MaxFixtures)

\* The fill loop from round r on with the round endpoint answering
\* `payload` for every round asked.
RECURSIVE FillFrom(_, _, _, _)
FillFrom(d, r, stop_round, payload) ==
    IF r > stop_round THEN d
    ELSE FillFrom(IF NeedsFetch(d, r)
                  THEN StoreRound(d, r, fetch_round_events(gen, is_v2, payload, r).events)
                  ELSE d,
                  r + 1, stop_round, payload)

\* What one run of build_metadata assembles from the feed and the fill
\* answers over rounds 1..MaxRound: the rounds with their sorted lists and
\* the season entries.
Assemble(feed, payload) ==
    LET d == FillFrom(PartitionEvents(gen, feed, 1, MaxRound, <<>>), 1, MaxRound, payload)
    IN  [events_by_round |-> SortInPlace(d, SortedRounds(d)),
         seasons |-> SeasonLoop(d, SortedRounds(d), <<>>)]

InitTwice ==
    /\ NoRun
    /\ \E f \in TwiceFeeds, p \in RoundPayloads :
           call = [op |-> "twice", feed |-> f, fill |-> p]
    /\ ret = [step |-> "run", runs |-> <<>>]

\* One run of build_metadata on the input, at the date the clock shows.
RunBuild ==
    /\ call.op = "twice" /\ ret.step = "run"
    /\ ret' = [step |-> IF ret.runs = <<>> THEN "wait" ELSE "done",
               runs |-> Append(ret.runs, Assemble(call.feed, call.fill))]
    /\ UNCHANGED <<call, run_vars, today>>

\* Time passes between the two runs.
ClockAdvance ==
    /\ call.op = "twice" /\ ret.step = "wait"
    /\ today' \in {d \in Days : d >= today}
    /\ ret' = [ret EXCEPT !.step = "run"]
    /\ UNCHANGED <<call, run_vars>>

NextTwice == RunBuild \/ ClockAdvance

SpecTwice == InitTwice /\ [][NextTwice]_vars

\* ------------------------------------------------- _fetch_json on its own
\* The largest retry count a caller passes.
MaxRetries == 2

RETRYABLE_STATUS_CODES == {429, 500, 502, 503, 504}

\* What urlopen does with one request: 200 is a JSON body, 0 a URLError
\* that is not an HTTPError, any other number an HTTPError of that status.
Answers == {0, 200, 404, 429, 503}

\* retry_backoff, in seconds.
Backoffs == {1, 3}

RECURSIVE Pow2(_)
Pow2(k) == IF k <= 0 THEN 1 ELSE 2 * Pow2(k - 1)

MayRetryThrough(code, attempt, retries) ==
    code \in RETRYABLE_STATUS_CODES /\ attempt <= retries

\* The condition of the except branch that retries.
MayRetry(code, attempt, retries) ==
    code \in RETRYABLE_STATUS_CODES /\ attempt < retries

\* The requests made so far.
RequestsMade(log) == Cardinality({p \in DOMAIN log : log[p].op = "request"})

InitFetch ==
    /\ NoRun
    /\ \E retries \in (-1)..MaxRetries, backoff \in Backoffs,
          limiter \in BOOLEAN, answers \in [1..(MaxRetries + 2) -> Answers] :
           call = [op |-> "fetch", retries |-> retries,
                   retry_backoff |-> backoff, rate_limiter |-> limiter,
                   answers |-> answers]
    /\ ret = [pc |-> "loop", attempt |-> 0, log |-> <<>>, error |-> 0]

\* The answer urlopen gives to the next request.
NextAnswer == call.answers[RequestsMade(ret.log) + 1]

\* The head of one pass of the loop: the limiter's wait, then the request.
Attempted ==
    ret.log \o (IF call.rate_limiter THEN <<[op |-> "wait", arg |-> 0]>>
                ELSE <<>>)
            \o <<[op |-> "request", arg |-> NextAnswer]>>

\* The response is read and returned.
FetchReturn ==
    /\ call.op = "fetch" /\ ret.pc = "loop"
    /\ RequestsMade(ret.log) < Len(call.answers)
    /\ NextAnswer = 200
    /\ ret' = [ret EXCEPT !.pc = "returned", !.log = Attempted]
    /\ UNCHANGED <<call, run_vars, today>>

\* An HTTPError that the except branch answers with a sleep and a new pass.
FetchRetry ==
    /\ call.op = "fetch" /\ ret.pc = "loop"
    /\ RequestsMade(ret.log) < Len(call.answers)
    /\ NextAnswer \notin {0, 200}
    /\ MayRetry(NextAnswer, ret.attempt, call.retries)
    /\ ret' = [ret EXCEPT
                 !.attempt = @ + 1,
                 !.log = Append(Attempted,
                                [op |-> "sleep",
                                 arg |-> call.retry_backoff
                                           * Pow2(ret.attempt)])]
    /\ UNCHANGED <<call, run_vars, today>>

\* An HTTPError that is raised again, or a URLError that nothing catches.
FetchRaise ==
    /\ call.op = "fetch" /\ ret.pc = "loop"
    /\ RequestsMade(ret.log) < Len(call.answers)
    /\ NextAnswer # 200
    /\ NextAnswer = 0 \/ ~MayRetry(NextAnswer, ret.attempt, call.retries)
    /\ ret' = [ret EXCEPT !.pc = "raised", !.log = Attempted,
                          !.error = NextAnswer]
    /\ UNCHANGED <<call, run_vars, today>>

NextFetch == FetchReturn \/ FetchRetry \/ FetchRaise

SpecFetch == InitFetch /\ [][NextFetch]_vars

\* ---------------------------------------- Moto3 _assign_session_events alone
\* The longest round list handed to _assign_session_events.
MaxMotoFixtures == 6

SESSION_BLUEPRINTS == <<
    [index |-> 1,
     title |-> <<"P","r","a","c","t","i","c","e"," ","O","n","e">>,
     slug |-> <<"p","r","a","c","t","i","c","e","-","o","n","e">>,
     aliases |-> <<<<"p","r","a","c","t","i","c","e"," ","1">>,
                 <<"p","r","a","c","t","i","c","e"," ","o","n","e">>,
                 <<"f","p","1">>,
                 <<"f","r","e","e"," ","p","r","a","c","t","i","c","e"," ","1">>,
                 <<"s","e","s","s","i","o","n"," ","1">>>>],
    [index |-> 2,
     title |-> <<"P","r","a","c","t","i","c","e"," ","T","w","o">>,
     slug |-> <<"p","r","a","c","t","i","c","e","-","t","w","o">>,
     aliases |-> <<<<"p","r","a","c","t","i","c","e"," ","2">>,
                 <<"p","r","a","c","t","i","c","e"," ","t","w","o">>,
                 <<"f","p","2">>,
                 <<"f","r","e","e"," ","p","r","a","c","t","i","c","e"," ","2">>,
                 <<"s","e","s","s","i","o","n"," ","2">>>>],
    [index |-> 3,
     title |-> <<"Q","u","a","l","i","f","y","i","n","g"," ","O","n","e">>,
     slug |-> <<"q","u","a","l","i","f","y","i","n","g","-","o","n","e">>,
     aliases |-> <<<<"q","u","a","l","i","f","y","i","n","g"," ","1">>,
                 <<"q","u","a","l","i","f","y","i","n","g"," ","o","n","e">>,
                 <<"q","1">>,
                 <<"q","u","a","l","i","f","i","e","r"," ","1">>>>],
    [index |-> 4,
     title |-> <<"Q","u","a","l","i","f","y","i","n","g"," ","T","w","o">>,
     slug |-> <<"q","u","a","l","i","f","y","i","n","g","-","t","w","o">>,
     aliases |-> <<<<"q","u","a","l","i","f","y","i","n","g"," ","2">>,
                 <<"q","u","a","l","i","f","y","i","n","g"," ","t","w","o">>,
                 <<"q","2">>,
                 <<"q","u","a","l","i","f","i","e","r"," ","2">>>>],
    [index |-> 5,
     title |-> <<"R","a","c","e">>,
     slug |-> <<"r","a","c","e">>,
     aliases |-> <<<<"r","a","c","e">>,
                 <<"g","r","a","n","d"," ","p","r","i","x">>,
                 <<"g","p">>,
                 <<"m","a","i","n"," ","r","a","c","e">>>>]
>>

\* Moto3 events: the name, and the file name where the feed gives one
\* (<<>> is a field the feed leaves out).
MOTO3_EVENTS == <<
    [strEvent |-> <<"M","o","t","o","3"," ","Q","a","t","a","r"," ","P","r","a","c","t","i","c","e"," ","1">>,
     strFilename |-> <<>>],
    [strEvent |-> <<"M","o","t","o","3"," ","Q","a","t","a","r"," ","Q","u","a","l","i","f","y","i","n","g"," ","2">>,
     strFilename |-> <<>>],
    [strEvent |-> <<"M","o","t","o","3"," ","Q","a","t","a","r"," ","R","a","c","e">>,
     strFilename |-> <<>>],
    [strEvent |-> <<"M","o","t","o","3"," ","Q","a","t","a","r"," ","W","a","r","m"," ","U","p">>,
     strFilename |-> <<>>],
    [strEvent |-> <<"M","o","t","o","3"," ","Q","a","t","a","r"," ","G","P">>,
     strFilename |-> <<"M","o","t","o","3"," ","2","0","2","5","-","0","3","-","0","2"," ","F","P","1">>]
>>

Moto3Ids == DOMAIN MOTO3_EVENTS

\* re.sub(r"[^a-z0-9]+", " ", s): every run of other characters becomes
\* one space.
RECURSIVE SubNonAlnum(_)
SubNonAlnum(s) ==
    IF s = <<>> THEN <<>>
    ELSE LET alnum(c) == c \in Range(LowerAlpha) \cup Range(DigitChars)
             rest == SubNonAlnum(Tail(s))
         IN  IF alnum(s[1]) THEN <<s[1]>> \o rest
             ELSE IF Len(s) > 1 /\ ~alnum(s[2]) THEN rest
             ELSE <<" ">> \o rest

_normalize_text(value) ==
    IF value = <<>> THEN <<>>
    ELSE Strip(SubNonAlnum(Lower(value)), Whitespace)

\* " ".join of the fields the event has.
_collect_event_text(i) ==
    LET e == MOTO3_EVENTS[i]
    IN  IF e.strFilename = <<>> THEN e.strEvent
        ELSE IF e.strEvent = <<>> THEN e.strFilename
        ELSE e.strEvent \o <<" ">> \o e.strFilename

\* any(alias and alias in haystack ...) for every event and blueprint.
AliasHit == [i \in Moto3Ids |-> [b \in DOMAIN SESSION_BLUEPRINTS |->
    \E a \in DOMAIN SESSION_BLUEPRINTS[b].aliases :
        LET alias == _normalize_text(SESSION_BLUEPRINTS[b].aliases[a])
        IN  /\ alias # <<>>
            /\ Contains(_normalize_text(_collect_event_text(i)), alias)]]

\* A list left as it is where an element should have been taken out.
KeepAll(s, p) == s

\* list.pop(p) leaves the list without its element at p.
Without(s, p) == SubSeq(s, 1, p - 1) \o SubSeq(s, p + 1, Len(s))

\* The index _pop_matching_event stops at, 0 when it returns None.  The
\* list holds positions of the caller's list, which stand for the dicts.
MatchIndex(fixtures, remaining, b) ==
    LET hits == {p \in DOMAIN remaining : AliasHit[fixtures[remaining[p]]][b]}
    IN  IF hits = {} THEN 0 ELSE CHOOSE p \in hits : \A q \in hits : p <= q

RECURSIVE SeqsUpTo(_, _)
SeqsUpTo(S, n) ==
    IF n = 0 THEN {<<>>}
    ELSE LET shorter == SeqsUpTo(S, n - 1)
         IN  shorter \cup {Append(s, x) : s \in {t \in shorter : Len(t) = n - 1},
                                           x \in S}

\* remaining = list(fixtures); assignments = []
InitAssign ==
    /\ NoRun
    /\ \E f \in SeqsUpTo(Moto3Ids, MaxMotoFixtures) :
           /\ call = [op |-> "assign", fixtures |-> f]
           /\ ret = [pc |-> "loop", fixtures |-> f,
                     remaining |-> [p \in 1..Len(f) |-> p],
                     assignments |-> <<>>]

\* The blueprint the loop is at.
Blueprint == Len(ret.assignments) + 1

AtBlueprint ==
    /\ call.op = "assign" /\ ret.pc = "loop"
    /\ Blueprint <= Len(SESSION_BLUEPRINTS)

\* One pass of the loop with the event taken out at index p of remaining
\* (None when p = 0).
Assign(p) ==
    ret' = [ret EXCEPT
              !.remaining = IF p = 0 THEN @ ELSE Without(@, p),
              !.assignments =
                  Append(@, [spec |-> Blueprint,
                             event |-> IF p = 0 THEN 0 ELSE ret.remaining[p]])]

\* _pop_matching_event finds an event for the blueprint.
AssignMatching ==
    /\ AtBlueprint
    /\ MatchIndex(ret.fixtures, ret.remaining, Blueprint) # 0
    /\ Assign(MatchIndex(ret.fixtures, ret.remaining, Blueprint))
    /\ UNCHANGED <<call, run_vars, today>>

\* No match: the first event left is taken.
AssignFirstLeft ==
    /\ AtBlueprint
    /\ MatchIndex(ret.fixtures, ret.remaining, Blueprint) = 0
    /\ ret.remaining # <<>>
    /\ Assign(1)
    /\ UNCHANGED <<call, run_vars, today>>

\* No match and nothing left: the blueprint gets None.
AssignNone ==
    /\ AtBlueprint
    /\ MatchIndex(ret.fixtures, ret.remaining, Blueprint) = 0
    /\ ret.remaining = <<>>
    /\ Assign(0)
    /\ UNCHANGED <<call, run_vars, today>>

\* return assignments
AssignReturn ==
    /\ call.op = "assign" /\ ret.pc = "loop"
    /\ Blueprint > Len(SESSION_BLUEPRINTS)
    /\ ret' = [ret EXCEPT !.pc = "done"]
    /\ UNCHANGED <<call, run_vars, today>>

NextAssign == AssignMatching \/ AssignFirstLeft \/ AssignNone \/ AssignReturn

SpecAssign == InitAssign /\ [][NextAssign]_vars

\* --------------------------------------- UFC build_metadata, round assembly
\* The events a UFC season feed may list (ids of EVENTS), and the payloads
\* a per-round fetch may answer with.
UfcFeedEvents == {2, 4, 5, 6}

UfcFeeds == DistinctSeqs(UfcFeedEvents, MaxFeed)

UfcPayloads == {<<>>, <<4>>, <<6>>}

\* The partition loop: events_by_round[round_number] = event for every
\* event whose intRound parses to a number other than 0.
RECURSIVE UfcPartition(_, _)
UfcPartition(feed, d) ==
    IF feed = <<>> THEN d
    ELSE LET r == IntRoundById[Head(feed)]
         IN  UfcPartition(Tail(feed),
                          IF r.keep THEN DictSet(d, r.n, Head(feed)) ELSE d)

\* fetch_round_event once _fetch_json has answered: the event, 0 for None.
fetch_round_event(v2, payload, r) ==
    LET own == SelectSeq(payload, LAMBDA i :
                   HelperRoundById[i].keep /\ HelperRoundById[i].n = r)
        found == IF v2 THEN own ELSE payload
    IN  IF found = <<>> THEN 0 ELSE found[1]

RangeEndBeyond(stop_round) == stop_round + 2

\* The end of range(args.round_start, args.round_stop + 1).
RangeEnd(stop_round) == stop_round + 1

InitUfc ==
    /\ NoRun
    /\ \E f \in UfcFeeds, first \in 1..MaxRound, last \in 1..MaxRound,
          skip \in BOOLEAN, v2 \in BOOLEAN :
           call = [op |-> "ufc", feed |-> f, round_start |-> first,
                   round_stop |-> last, skip_round_fill |-> skip, v2 |-> v2]
    /\ ret = [pc |-> "partition", events_by_round |-> <<>>,
              round_number |-> 0, seasons |-> <<>>]

\* The partition loop and the test that guards the fill loop.
UfcPartitionFeed ==
    /\ call.op = "ufc" /\ ret.pc = "partition"
    /\ ret' = [ret EXCEPT
                 !.events_by_round = UfcPartition(call.feed, <<>>),
                 !.round_number = call.round_start,
                 !.pc = IF /\ ~call.skip_round_fill
                           /\ call.round_stop >= call.round_start
                           /\ call.round_start < RangeEnd(call.round_stop)
                        THEN "fill" ELSE "build"]
    /\ UNCHANGED <<call, run_vars, today>>

\* The end of one pass of the fill loop, with the dict as d.
UfcAdvance(d) ==
    ret' = [ret EXCEPT
              !.events_by_round = d,
              !.round_number = @ + 1,
              !.pc = IF ret.round_number + 1 < RangeEnd(call.round_stop)
                     THEN "fill" ELSE "build"]

\* `if round_number in events_by_round: continue`
UfcFillKnown ==
    /\ call.op = "ufc" /\ ret.pc = "fill"
    /\ DictHas(ret.events_by_round, ret.round_number)
    /\ UfcAdvance(ret.events_by_round)
    /\ UNCHANGED <<call, run_vars, today>>

\* The round is fetched (at the first request or at the retry without
\* verification) and stored when the answer holds an event.
UfcFillFetch ==
    /\ call.op = "ufc" /\ ret.pc = "fill"
    /\ ~DictHas(ret.events_by_round, ret.round_number)
    /\ \E payload \in UfcPayloads :
           LET round_event == fetch_round_event(call.v2, payload,
                                                ret.round_number)
           IN  UfcAdvance(IF round_event # 0
                          THEN DictSet(ret.events_by_round,
                                       ret.round_number, round_event)
                          ELSE ret.events_by_round)
    /\ UNCHANGED <<call, run_vars, today>>

\* The fetch fails for good: RuntimeError, or the URLError of the retry.
UfcFillRaise ==
    /\ call.op = "ufc" /\ ret.pc = "fill"
    /\ ~DictHas(ret.events_by_round, ret.round_number)
    /\ ret' = [ret EXCEPT !.pc = "raised"]
    /\ UNCHANGED <<call, run_vars, today>>

\* `for round_number in sorted(events_by_round)`: one season entry each.
UfcBuildSeasons ==
    /\ call.op = "ufc" /\ ret.pc = "build"
    /\ ret' = [ret EXCEPT !.seasons = SortedRounds(ret.events_by_round),
                          !.pc = "done"]
    /\ UNCHANGED <<call, run_vars, today>>

NextUfc ==
    \/ UfcPartitionFeed
    \/ UfcFillKnown
    \/ UfcFillFetch
    \/ UfcFillRaise
    \/ UfcBuildSeasons

SpecUfc == InitUfc /\ [][NextUfc]_vars

\* ------------------------------------------------------------------ claims
start == args.matchweek_start
stop == args.matchweek_stop

\* The fill loop has ended normally.
Assembled == pc \in {"build", "done"}

\* Positions of the trace that are calls of fetch_round_events.
RoundCalls == {p \in DOMAIN trace : trace[p].op = "round"}

\* The dict the partition loop built from the bulk feed in hand.
BulkPartition == PartitionEvents(gen, events, start, stop, <<>>)

\* The rounds of the season entries, in output order.
SeasonNumbers == [i \in 1..Len(seasons) |-> seasons[i].number]

\* C1: in all four generators every key of events_by_round lies in
\* [matchweek_start, matchweek_stop] and maps to a list of at least one event,
\* during and after round assembly, whatever the feed and the fill responses.
C1_RoundsInRangeNonEmpty ==
    \A i \in DOMAIN events_by_round :
        /\ start <= events_by_round[i].k
        /\ events_by_round[i].k <= stop
        /\ Len(events_by_round[i].v) >= 1

\* C1 witness: assembly ended with a round from the bulk feed and a round
\* from a fill fetch, while the feed held an event outside the range.
C1_Witness ==
    /\ pc = "build"
    /\ \E p \in RoundCalls : trace[p].result # <<>>
    /\ \E i \in DOMAIN events_by_round :
           DictGet(BulkPartition, events_by_round[i].k) # <<>>
    /\ \E q \in DOMAIN events :
           LET n == PartitionRound(gen, events[q]) IN n.keep /\ n.n > stop

\* The bulk feed holds an event tagged r.
BulkHas(r) ==
    \E q \in DOMAIN events :
        LET n == PartitionRound(gen, events[q]) IN n.keep /\ n.n = r

\* A per-round fetch for r returned at least one event.
FetchReturned(r) ==
    \E p \in RoundCalls :
        trace[p].round = r /\ trace[p].status = "ok" /\ trace[p].result # <<>>

\* C2: with fill enabled, once assembly has ended a round of the range is
\* present iff the bulk feed holds an event tagged with it or its per-round
\* fetch returned an event; the season entries are the present rounds in
\* strictly ascending order.
C2_PresentIffBulkOrFetched ==
    /\ (Assembled /\ FillEnabled) =>
           \A r \in start..stop :
               DictHas(events_by_round, r) <=> (BulkHas(r) \/ FetchReturned(r))
    /\ pc = "done" =>
           /\ \A i \in 1..Len(seasons), j \in 1..Len(seasons) :
                  i < j => seasons[i].number < seasons[j].number
           /\ Range(SeasonNumbers) = Range(DictKeys(events_by_round))

\* C2 witness: range [1,3], the bulk feed holds round 2 only, the fetches of
\* rounds 1 and 3 return one event each, and the document lists 1, 2, 3.
C2_Witness ==
    /\ pc = "done"
    /\ start = 1 /\ stop = 3
    /\ failures = 0
    /\ \A r \in 1..3 : BulkHas(r) <=> r = 2
    /\ \A r \in {1, 3} :
           \E p \in RoundCalls : trace[p].round = r /\ Len(trace[p].result) = 1
    /\ SeasonNumbers = <<1, 2, 3>>
    /\ \A r \in 1..3 : Len(DictGet(events_by_round, r)) >= 1

\* C3: no per-round fetch is issued when --skip-matchweek-fill is set or when
\* matchweek_stop < matchweek_start; the fill loop is then never entered and
\* nothing is raised after the bulk feed and the season description.
C3_NoFetchWhenFillOff ==
    (args.skip_matchweek_fill \/ stop < start) =>
        /\ RoundCalls = {}
        /\ pc # "fill"
        /\ pc = "raised" => trace[Len(trace)].op \in {"season", "describe"}

\* C3 witness: a run with stop < start, and a run with fill disabled and a
\* gap in the bulk data, returned a document.
C3_Witness ==
    /\ pc = "done"
    /\ \/ stop < start
       \/ /\ args.skip_matchweek_fill
          /\ stop >= start
          /\ \E r \in start..stop : ~DictHas(events_by_round, r)
          /\ events_by_round # <<>>

\* C4: fetch_round_events is called only for rounds of the range without
\* events after the partition, in ascending round order, per round once plus
\* at most one retry without verification right after a transport failure; a
\* round the bulk feed populated keeps its list through the fill.
C4_FetchOnlyGapsInOrder ==
    LET bulk == BulkPartition
        calls == RoundCalls
    IN  /\ \A p \in calls :
               /\ trace[p].round \in start..stop
               /\ DictGet(bulk, trace[p].round) = <<>>
        /\ \A p \in calls, q \in calls :
               p < q =>
                   \/ trace[p].round < trace[q].round
                   \/ /\ trace[p].round = trace[q].round
                      /\ q = p + 1
                      /\ trace[p].status = "URLError"
                      /\ trace[q].ctx = "unverified"
        /\ \A r \in start..stop :
               Cardinality({p \in calls : trace[p].round = r}) <= 2
        /\ (pc \in {"fill", "build"} \/ (pc = "raised" /\ calls # {})) =>
               \A i \in DOMAIN bulk :
                   DictGet(events_by_round, bulk[i].k) = bulk[i].v

\* C4 witness: a gap was fetched and retried while a later round, populated
\* by the bulk feed, was passed over.
C4_Witness ==
    /\ pc = "build"
    /\ \E p \in RoundCalls :
           /\ p + 1 \in RoundCalls
           /\ trace[p + 1].round = trace[p].round
           /\ DictGet(BulkPartition, trace[p].round + 1) # <<>>

\* The call at position p failed for good: a transport failure that is not
\* retried (--insecure) or is itself the retry.
Unrecovered(p) ==
    /\ p \in RoundCalls
    /\ trace[p].status = "URLError"
    /\ \/ ~verify_ssl
       \/ /\ p > 1
          /\ trace[p - 1].op = "round"
          /\ trace[p - 1].round = trace[p].round
          /\ trace[p - 1].status = "URLError"

\* C5: a per-round fetch whose transport failure is not recovered ends the
\* run: build_metadata has raised, nothing was requested afterwards and no
\* document is returned.
C5_FailedRoundAborts ==
    \A p \in DOMAIN trace :
        Unrecovered(p) =>
            /\ pc = "raised"
            /\ error \in {"RuntimeError", "URLError"}
            /\ p = Len(trace)
            /\ seasons = <<>>
            /\ show_summary = "unset"

\* C5 witness: the fetch of a round before the last one failed and its retry
\* without verification failed too.
C5_Witness ==
    /\ pc = "raised"
    /\ Unrecovered(Len(trace))
    /\ trace[Len(trace)].round < stop
    /\ verify_ssl

\* Positions of the trace where the season-description request failed.
DescribeFailures ==
    {p \in DOMAIN trace : trace[p].op = "describe" /\ trace[p].status = "URLError"}

\* C6: a transport failure of the season-description fetch, the failure of
\* its retry without verification included, never aborts the run, and the
\* document then carries the default summary.
C6_EnrichmentFailureNotFatal ==
    /\ \A p \in DescribeFailures : ~(pc = "raised" /\ p = Len(trace))
    /\ (pc = "done" /\ DescribeFailures # {} /\ season_summary = "None") =>
           show_summary = "args.summary"

\* C7: with API v2 (no per-round endpoint) a fill fetch that got a payload
\* completes without error and yields exactly the events of that season
\* payload whose round number is the round asked for, in all four generators.
C7_V2FillFiltersSeasonFeed ==
    is_v2 =>
        \A p \in RoundCalls :
            trace[p].status # "URLError" =>
                /\ trace[p].status = "ok"
                /\ trace[p].result =
                       SelectSeq(trace[p].payload, LAMBDA i :
                           LET n == PartitionRound(gen, i)
                           IN  n.keep /\ n.n = trace[p].round)

\* A round field that is missing, zero or non-numeric.
MalformedValue(x) ==
    \/ x.t = "none"
    \/ x.t = "str" /\ x.s = <<>>
    \/ ~PyInt(x).ok
    \/ PyInt(x).ok /\ PyInt(x).n = 0

\* An event without a usable round number: intRound for Formula 1 and Moto3,
\* intRound and strRound for ISU and NFL.
Malformed(i) ==
    /\ MalformedValue(EVENTS[i].intRound)
    /\ HasRoundHelper(gen) => MalformedValue(EVENTS[i].strRound)

\* The partition has run and no fill fetch has changed its result yet.
JustPartitioned == pc \in {"fill", "build"} /\ RoundCalls = {}

\* C8: the partition drops every event whose round number is missing, zero or
\* non-numeric, and groups the other events as if it were not in the feed.
C8_MalformedRoundDropped ==
    JustPartitioned =>
        /\ \A i \in DOMAIN events_by_round :
               \A q \in DOMAIN events_by_round[i].v :
                   ~Malformed(events_by_round[i].v[q])
        /\ events_by_round =
               PartitionEvents(gen, SelectSeq(events, LAMBDA i : ~Malformed(i)),
                               start, stop, <<>>)

\* Positions of the trace where the inter-request delay was waited.
Sleeps == {p \in DOMAIN trace : trace[p].op = "sleep"}

\* C9 as stated: the delay is waited only between successive fill fetches, so
\* once the fill loop has ended every wait was followed by another fetch.
C9_DelayOnlyBetweenFetches ==
    Assembled =>
        \A p \in Sleeps : \E q \in RoundCalls : q > p

\* C9 amended: the delay is waited exactly after each completed fill fetch of
\* a round before matchweek_stop when the configured delay is positive,
\* whether or not another fetch follows; never for a round the bulk feed
\* populated and never after the round matchweek_stop.
C9_DelayAfterEachFetchBeforeStop ==
    /\ \A p \in Sleeps :
           /\ args.matchweek_delay > 0
           /\ p > 1
           /\ trace[p - 1].op = "round"
           /\ trace[p - 1].status = "ok"
           /\ trace[p - 1].round = trace[p].round
           /\ trace[p].round < stop
           /\ DictGet(BulkPartition, trace[p].round) = <<>>
    /\ \A p \in RoundCalls :
           (trace[p].status = "ok" /\ args.matchweek_delay > 0 /\ trace[p].round < stop)
               => (p + 1 \in Sleeps)

\* C9 witness: the delay was waited after a fetch that no other fetch
\* followed, and the fetch of the last round was not followed by a wait.
C9_Witness ==
    \/ /\ pc = "build"
       /\ \E p \in Sleeps : \A q \in RoundCalls : q < p
    \/ /\ pc = "build"
       /\ args.matchweek_delay > 0
       /\ Len(trace) \in RoundCalls
       /\ trace[Len(trace)].round = stop
       /\ Sleeps # {}

\* C10: every season entry of the Formula 1 generator has one episode per
\* slot of the template chosen for the round, numbered 1..N in template order
\* and titled with the slot titles, whatever events the round holds.
C10_OneEpisodePerSlot ==
    (gen = "f1" /\ pc = "done") =>
        \A s \in DOMAIN seasons :
            LET plan == SessionPlan(DictGet(events_by_round, seasons[s].number))
                eps == seasons[s].episodes
            IN  /\ Len(eps) = Len(plan)
                /\ \A j \in 1..Len(plan) :
                       eps[j].index = j /\ eps[j].title = plan[j].title

\* C10 witness: a document with a sprint round (13 episodes) and a round whose
\* only event matches no slot keyword (11 episodes).
C10_Witness ==
    /\ gen = "f1" /\ pc = "done"
    /\ \E s \in DOMAIN seasons : Len(seasons[s].episodes) = 13
    /\ \E s \in DOMAIN seasons :
           /\ Len(seasons[s].episodes) = 11
           /\ LET fx == DictGet(events_by_round, seasons[s].number)
              IN  \A j \in DOMAIN STANDARD_WEEKEND_SESSIONS :
                      _match_session_event(fx, STANDARD_WEEKEND_SESSIONS[j].keywords) = 0

\* _clean_round_title is being run on its own and has returned.
CleanReturned == call.op = "_clean_round_title" /\ ret.step = "returned"

\* C17: title cleaning is idempotent: _clean_round_title applied to what it
\* returned, with the same fallback label, returns it unchanged.
C17_CleanIdempotent ==
    (CleanReturned /\ call.pass = 2) => ret.result = call.raw_title

\* The round of 'Italian Grand Prix Qualifying' (day 6) and 'Italian Grand
\* Prix' (day 7), in either feed order, and its title.
ItalianRounds == {<<2, 3>>, <<3, 2>>}

ItalianGrandPrix == <<"I","t","a","l","i","a","n"," ","G","r","a","n","d"," ","P","r","i","x">>

RoundMatched == call.op = "round" /\ ret.step \in {"episodes", "done"}

\* The episodes of the round handled on its own are built.
RoundDone == call.op = "round" /\ ret.step = "done"

\* matched_events.get(slug) in that round, 0 for None.
RoundMatch(slug) ==
    IF \E i \in DOMAIN ret.matched_events : ret.matched_events[i].k = slug
    THEN ret.matched_events[CHOOSE i \in DOMAIN ret.matched_events :
                                ret.matched_events[i].k = slug].v
    ELSE 0

\* The template of that round.
RoundPlan == SessionPlan(ret.fixtures)

\* Event i names one of the keywords in its title, alternate title or file
\* name, whatever the case of the letters.
TextHits == [i \in RoundEvents |-> [kws \in AllKeywords |->
    \E k \in DOMAIN kws :
        Contains(Lower(EVENTS[i].strEvent \o <<" ">> \o EVENTS[i].strEventAlternate
                       \o <<" ">> \o EVENTS[i].strFilename),
                 Lower(kws[k]))]]

\* The positions of the round's list whose event names a keyword of slot j.
SlotHits(j) ==
    {p \in DOMAIN ret.fixtures : TextHits[ret.fixtures[p]][RoundPlan[j].keywords]}

\* C11: the round's list is handed to the matcher sorted by (date,
\* lower-cased name) and stays that list through matching; the direct match
\* of every slot is the first event of that list whose combined text holds a
\* keyword of the slot, and None when no event holds one.
C11_DirectMatchIsFirstHit ==
    call.op = "round" =>
        /\ ret.step # "sort" =>
               /\ Len(ret.fixtures) = Len(call.fixtures)
               /\ Range(ret.fixtures) = Range(call.fixtures)
               /\ \A p \in DOMAIN ret.fixtures, q \in DOMAIN ret.fixtures :
                      p < q => ~FixtureKeyLess(ret.fixtures[q], ret.fixtures[p])
        /\ RoundMatched =>
               \A j \in DOMAIN RoundPlan :
                   LET hits == SlotHits(j)
                   IN  RoundMatch(RoundPlan[j].slug) =
                           IF hits = {} THEN 0
                           ELSE ret.fixtures[CHOOSE p \in hits : \A q \in hits : p <= q]

\* C11 witness: the sort reordered the round, a slot has two events naming
\* its keywords and another slot has none.
C11_Witness ==
    /\ RoundDone
    /\ ret.fixtures # call.fixtures
    /\ \E j \in DOMAIN RoundPlan : Cardinality(SlotHits(j)) >= 2
    /\ \E j \in DOMAIN RoundPlan : SlotHits(j) = {}

\* C12: after the direct-match pass no two slots hold the same event.
C12_EventMatchesOneSlot ==
    RoundMatched =>
        \A a \in DOMAIN ret.matched_events, b \in DOMAIN ret.matched_events :
            a # b => ret.matched_events[a].v # ret.matched_events[b].v

\* C13: for the round of 'Italian Grand Prix Qualifying' (event 2, day 6) and
\* 'Italian Grand Prix' (event 3, day 7) the qualifying slot matches the
\* first and the race slot the second.
C13_ItalianRoundMatches ==
    (RoundMatched /\ call.fixtures \in ItalianRounds) =>
        /\ RoundPlan = STANDARD_WEEKEND_SESSIONS
        /\ RoundMatch("qualifying") = 2
        /\ RoundMatch("race") = 3

\* The positions of slot j's fallback_slugs that have a direct match.
MatchedFallbacks(j) ==
    {k \in DOMAIN RoundPlan[j].fallback_slugs :
        RoundMatch(RoundPlan[j].fallback_slugs[k]) # 0}

\* C14: a slot with a direct match uses it; a slot without one uses the
\* direct match of the first of its fallback_slugs that has one, else the
\* round's primary event; without events the source is the empty dict.
C14_FallbackCascade ==
    /\ RoundDone =>
           \A j \in DOMAIN RoundPlan :
               LET own == RoundMatch(RoundPlan[j].slug)
                   fb == MatchedFallbacks(j)
               IN  ret.episodes[j].source_event =
                       IF own # 0 THEN own
                       ELSE IF fb # {}
                       THEN RoundMatch(RoundPlan[j].fallback_slugs[
                                CHOOSE k \in fb : \A h \in fb : k <= h])
                       ELSE ret.primary_event
    /\ call.op = "round" =>
           \A j \in DOMAIN STANDARD_WEEKEND_SESSIONS :
               SourceEvent(STANDARD_WEEKEND_SESSIONS, <<>>,
                           STANDARD_WEEKEND_SESSIONS[j]) = 0

\* C14 witness: a slot without a direct match has two fallback slugs matched
\* to different events, neither the primary event by default.
C14_Witness ==
    /\ RoundDone
    /\ \E j \in DOMAIN RoundPlan :
           /\ RoundMatch(RoundPlan[j].slug) = 0
           /\ \E k \in MatchedFallbacks(j), h \in MatchedFallbacks(j) :
                  /\ k < h
                  /\ RoundMatch(RoundPlan[j].fallback_slugs[k])
                         # RoundMatch(RoundPlan[j].fallback_slugs[h])
                  /\ RoundMatch(RoundPlan[j].fallback_slugs[k]) # ret.primary_event

\* The latest date among the events of the round.
LatestDate ==
    CHOOSE d \in {EVENTS[ret.fixtures[p]].dateEvent : p \in DOMAIN ret.fixtures} :
        \A p \in DOMAIN ret.fixtures : EVENTS[ret.fixtures[p]].dateEvent <= d

C16_PrimaryIsLowestClassEarliest ==
    call.op = "round" =>
        /\ _select_primary_event(<<>>) = 0
        /\ PriorityRank[3] = 0 /\ PriorityRank[8] = 0
        /\ PriorityRank[2] = 1
        /\ PriorityRank[1] = 2
        /\ PriorityRank[9] = 3
        /\ PriorityRank[4] = 4 /\ PriorityRank[10] = 4 /\ PriorityRank[11] = 4
        /\ ret.step \in {"match", "episodes", "done"} =>
               /\ ret.primary_event \in Range(ret.fixtures)
               /\ \A p \in DOMAIN ret.fixtures :
                      LET e == ret.fixtures[p]
                      IN  \/ PriorityRank[ret.primary_event] < PriorityRank[e]
                          \/ /\ PriorityRank[ret.primary_event] = PriorityRank[e]
                             /\ EVENTS[ret.primary_event].dateEvent
                                    <= EVENTS[e].dateEvent

\* C16 witness: the primary event is not the first of the round and another
\* event of its class is dated later.
C16_Witness ==
    /\ RoundDone
    /\ ret.primary_event # ret.fixtures[1]
    /\ \E p \in DOMAIN ret.fixtures :
           /\ PriorityRank[ret.fixtures[p]] = PriorityRank[ret.primary_event]
           /\ EVENTS[ret.fixtures[p]].dateEvent > EVENTS[ret.primary_event].dateEvent

\* C20 as stated: when no event matches any slot, every episode has its slot
\* title and offset date and its summary closes with the generic sentence.
C20_UnmatchedRoundGenericSummary ==
    (RoundDone /\ ret.matched_events = <<>>) =>
        \A j \in DOMAIN RoundPlan :
            /\ ret.episodes[j].title = RoundPlan[j].title
            /\ ret.episodes[j].originally_available =
                   LatestDate + RoundPlan[j].day_offset
            /\ ret.episodes[j].summary.closing = "generic"

\* C20 amended: when no event matches any slot, every episode has its slot
\* title and offset date, and its summary closes with the description of the
\* round's primary event when it has one and with the slot's summary_hint
\* otherwise; every slot of both templates has a summary_hint, so the generic
\* sentence is never used.
C20_UnmatchedRoundHintSummary ==
    /\ (RoundDone /\ ret.matched_events = <<>>) =>
           \A j \in DOMAIN RoundPlan :
               LET description == Strip(EVENTS[ret.primary_event].strDescriptionEN,
                                        Whitespace)
               IN  /\ ret.episodes[j].title = RoundPlan[j].title
                   /\ ret.episodes[j].originally_available =
                          LatestDate + RoundPlan[j].day_offset
                   /\ ret.episodes[j].source_event = ret.primary_event
                   /\ ret.episodes[j].summary =
                          IF description # <<>>
                          THEN [closing |-> "description", description |-> description]
                          ELSE [closing |-> "summary_hint", description |-> <<>>]
    /\ call.op = "round" =>
           /\ \A j \in DOMAIN STANDARD_WEEKEND_SESSIONS :
                  STANDARD_WEEKEND_SESSIONS[j].summary_hint # ""
           /\ \A j \in DOMAIN SPRINT_WEEKEND_SESSIONS :
                  SPRINT_WEEKEND_SESSIONS[j].summary_hint # ""

\* C20 witness: a round of two events that match no slot, the primary one
\* without a description: every summary closes with its slot's hint.
C20_Witness ==
    /\ RoundDone
    /\ ret.matched_events = <<>>
    /\ Len(ret.fixtures) = 2
    /\ \A j \in DOMAIN RoundPlan : ret.episodes[j].summary.closing = "summary_hint"

\* The descriptor-stripped session titles of the call in hand that are not
\* empty.
StrippedNames ==
    {StrippedTitle[ret.session_titles[i]] : i \in DOMAIN ret.session_titles}
        \ {<<>>}

\* The number of session titles that strip to name.
Frequency(name) ==
    Cardinality({i \in DOMAIN ret.session_titles :
                    StrippedTitle[ret.session_titles[i]] = name})

\* The most frequent stripped names, of those the longest.
MostFrequentLongest ==
    {n \in StrippedNames :
        \A m \in StrippedNames :
            \/ Frequency(m) < Frequency(n)
            \/ Frequency(m) = Frequency(n) /\ Len(m) <= Len(n)}

\* The words of session title i.
TitleWords(i) == TitleTokens[ret.session_titles[i]]

\* The same words lower-cased.
LowerWords(i) == LoweredTokens[ret.session_titles[i]]

\* The first n words of every session title are the same, whatever the case.
LeadAgrees(n) ==
    \A i \in DOMAIN ret.session_titles :
        /\ n <= Len(TitleWords(i))
        /\ \A k \in 1..n : LowerWords(i)[k] = LowerWords(1)[k]

\* The last n words of every session title are the same, whatever the case.
TrailAgrees(n) ==
    \A i \in DOMAIN ret.session_titles :
        /\ n <= Len(TitleWords(i))
        /\ \A k \in 1..n :
               LowerWords(i)[Len(TitleWords(i)) + 1 - k]
                   = LowerWords(1)[Len(TitleWords(1)) + 1 - k]

\* The longest common leading word sequence, in the first title's spelling.
CommonLead ==
    LET n == CHOOSE n \in 0..Len(TitleWords(1)) :
                 LeadAgrees(n) /\ \A m \in 0..Len(TitleWords(1)) : LeadAgrees(m) => m <= n
    IN  JoinWords(SubSeq(TitleWords(1), 1, n))

\* The longest common trailing word sequence, in the first title's spelling.
CommonTrail ==
    LET n == CHOOSE n \in 0..Len(TitleWords(1)) :
                 TrailAgrees(n) /\ \A m \in 0..Len(TitleWords(1)) : TrailAgrees(m) => m <= n
    IN  JoinWords(SubSeq(TitleWords(1), Len(TitleWords(1)) + 1 - n, Len(TitleWords(1))))

\* The names the fallback chain allows for the session titles in hand.
ChainChoices ==
    IF ret.session_titles = <<>> THEN {<<>>}
    ELSE IF StrippedNames # {} THEN MostFrequentLongest
    ELSE IF CommonLead # <<>> THEN {CommonLead}
    ELSE IF CommonTrail # <<>> THEN {CommonTrail}
    ELSE {ret.session_titles[1]}

\* A chosen name as the base name: without the hyphens, dashes, commas,
\* colons and blanks around it, and the base of the first event when nothing
\* is left.
AsBaseName(choice) ==
    LET trimmed == Strip(Strip(choice, Whitespace), BaseStripChars)
    IN  IF trimmed # <<>> THEN trimmed
        ELSE _extract_event_base(FirstFixtureOf(call.fixtures))

\* C19 as stated: the base name of the round is the name the chain chooses:
\* the most frequent non-empty descriptor-stripped title (the longest among
\* equals), else the longest common leading word sequence, else the longest
\* common trailing one, else the first title verbatim.
C19_BaseNameIsChainChoice ==
    (call.op = "derive" /\ ret.step \in {"render", "done"} /\ ret.session_titles # <<>>)
        => ret.base_name \in ChainChoices

\* C19 amended: the chain chooses the name in that order, and the base name
\* is the chosen name without the hyphens, dashes, commas, colons and blanks
\* around it; when nothing is left of it the base name is the first event's
\* title up to its first separator.
C19_BaseNameIsTrimmedChainChoice ==
    call.op = "derive" =>
        /\ ret.step = "trim" => ret.base_name \in ChainChoices
        /\ ret.step \in {"render", "done"} =>
               ret.base_name \in {AsBaseName(choice) : choice \in ChainChoices}

\* C19 witness: two stripped names are equally frequent, the longer one is
\* chosen and loses its trailing hyphen.
C19_Witness ==
    /\ call.op = "derive" /\ ret.step = "done"
    /\ \E n \in StrippedNames, m \in StrippedNames :
           /\ Frequency(n) = Frequency(m)
           /\ Len(m) < Len(n)
           /\ MostFrequentLongest = {n}
           /\ ret.base_name # n
           /\ ret.base_name = AsBaseName(n)

\* C25: no round numbered 0 or below is ever in events_by_round, whatever
\* the configured range, during and after the partition and the fill.
C25_NoRoundAtOrBelowZero ==
    \A i \in DOMAIN events_by_round : events_by_round[i].k > 0

\* C26: once the rounds are assembled every event stored under round r has
\* round number r, the events of a fill fetch included, and no episode of the
\* season entry of round r is derived from an event of another round.
C26_EventsBelongToTheirRound ==
    Assembled =>
        /\ \A i \in DOMAIN events_by_round :
               \A q \in DOMAIN events_by_round[i].v :
                   LET n == PartitionRound(gen, events_by_round[i].v[q])
                   IN  n.keep /\ n.n = events_by_round[i].k
        /\ \A s \in DOMAIN seasons :
               \A j \in DOMAIN seasons[s].episodes :
                   LET e == seasons[s].episodes[j].source_event
                   IN  e # 0 => /\ PartitionRound(gen, e).keep
                                /\ PartitionRound(gen, e).n = seasons[s].number

\* C27: in both Formula 1 templates the episode dates never decrease in
\* episode order.
C27_EpisodeDatesNeverDecrease ==
    RoundDone =>
        \A j \in DOMAIN ret.episodes :
            j > 1 => ret.episodes[j - 1].originally_available
                         <= ret.episodes[j].originally_available

\* Positions of the trace that are requests made with the SSL context.
Requests == {p \in DOMAIN trace : trace[p].op \in {"season", "describe", "round", "asset"}}

\* C29: a request is made without verification only under --insecure or
\* after an earlier request of the run failed with a URLError; after a
\* request without verification every later request of the run, fill fetches
\* and asset downloads included, is made without verification and the
\* context in use stays unverified; under --insecure a failed bulk or
\* per-round fetch is the last request of the run, which raises RuntimeError.
C29_ContextOnlyDowngrades ==
    LET requests == Requests
    IN  /\ \A p \in requests :
               trace[p].ctx = "unverified" =>
                   /\ args.insecure \/ \E q \in 1..(p - 1) : trace[q].status = "URLError"
                   /\ \A q \in requests : q > p => trace[q].ctx = "unverified"
                   /\ context = "unverified"
        /\ context = "unverified" =>
               args.insecure \/ \E q \in DOMAIN trace : trace[q].status = "URLError"
        /\ args.insecure =>
               \A p \in requests :
                   (trace[p].op \in {"season", "round"} /\ trace[p].status = "URLError")
                       => /\ p = Len(trace)
                          /\ pc = "raised"
                          /\ error = "RuntimeError"

\* C29 witness: a verified run whose fill fetch failed, was repeated without
\* verification, and whose later fill fetch and asset download were made
\* without verification.
C29_Witness ==
    /\ ~args.insecure
    /\ pc = "done"
    /\ \E p \in Requests, q \in Requests, a \in Requests :
           /\ trace[p].op = "round" /\ trace[p].ctx = "verified"
           /\ trace[p].status = "URLError"
           /\ trace[q].op = "round" /\ trace[q].round > trace[p].round
           /\ trace[q].ctx = "unverified"
           /\ trace[a].op = "asset" /\ trace[a].ctx = "unverified"

\* C22: in the template of every round, standard or sprint, the slot slugs
\* are unique, every fallback slug names a slot of that template and no slot
\* names itself; the fallback walk of a slot makes at most one lookup per
\* fallback slug, so at most len(template), also when the slugs it names have
\* no match either.
C22_FallbackWalkBounded ==
    RoundDone =>
        LET plan == RoundPlan
        IN  /\ plan \in {STANDARD_WEEKEND_SESSIONS, SPRINT_WEEKEND_SESSIONS}
            /\ \A a \in DOMAIN plan, b \in DOMAIN plan :
                   a # b => plan[a].slug # plan[b].slug
            /\ \A j \in DOMAIN plan :
                   /\ \A k \in DOMAIN plan[j].fallback_slugs :
                          /\ \E h \in DOMAIN plan : plan[h].slug = plan[j].fallback_slugs[k]
                          /\ plan[j].fallback_slugs[k] # plan[j].slug
                   /\ ret.lookups[j] <= Len(plan[j].fallback_slugs)
                   /\ ret.lookups[j] <= Len(plan)
                   /\ (RoundMatch(plan[j].slug) = 0 /\ MatchedFallbacks(j) = {})
                          => /\ ret.lookups[j] = Len(plan[j].fallback_slugs)
                             /\ ret.episodes[j].source_event = ret.primary_event

\* C22 witness: a slot without a match walks two fallback slugs that have no
\* match either, one of which falls back to the other, and ends at the
\* primary event.
C22_Witness ==
    /\ RoundDone
    /\ \E j \in DOMAIN RoundPlan :
           /\ RoundMatch(RoundPlan[j].slug) = 0
           /\ MatchedFallbacks(j) = {}
           /\ ret.lookups[j] = 2
           /\ \E h \in DOMAIN RoundPlan :
                  /\ RoundPlan[h].slug = RoundPlan[j].fallback_slugs[1]
                  /\ RoundPlan[h].fallback_slugs = <<RoundPlan[j].fallback_slugs[2]>>
           /\ ret.episodes[j].source_event = ret.primary_event

\* The rounds of a run with their events as sets.
Groupings(run) ==
    {<<run.events_by_round[i].k, Range(run.events_by_round[i].v)>> :
        i \in DOMAIN run.events_by_round}

\* The episodes of a run in output order: round, index and title.
EpisodeOrder(run) ==
    [s \in DOMAIN run.seasons |->
        [j \in DOMAIN run.seasons[s].episodes |->
            <<run.seasons[s].number, run.seasons[s].episodes[j].index,
              run.seasons[s].episodes[j].title>>]]

\* C21: two runs on the same feed, the same fill answers and the same
\* configuration give the same round-to-event groupings, the same event
\* order within each round and the same episode order.
C21_RunsAgree ==
    (call.op = "twice" /\ ret.step = "done") =>
        /\ Groupings(ret.runs[1]) = Groupings(ret.runs[2])
        /\ ret.runs[1].events_by_round = ret.runs[2].events_by_round
        /\ EpisodeOrder(ret.runs[1]) = EpisodeOrder(ret.runs[2])

\* Positions of the log of _fetch_json, by kind.
LogAt(kind) == {p \in DOMAIN ret.log : ret.log[p].op = kind}

\* The sleeps that precede position p of the log.
SleepsBefore(p) == Cardinality({q \in LogAt("sleep") : q < p})

\* What the claim says of the log besides the number of attempts: the
\* limiter's wait precedes every request, a sleep follows exactly a
\* retryable HTTPError met while fewer than retries retries were made and
\* lasts retry_backoff * 2^k before retry k+1, every other failure is
\* raised to the caller, and a body is returned.
FetchLogAsClaimed ==
    /\ call.rate_limiter =>
           /\ \A p \in LogAt("request") :
                  p > 1 /\ ret.log[p - 1].op = "wait"
           /\ Cardinality(LogAt("wait")) = Cardinality(LogAt("request"))
    /\ ~call.rate_limiter => LogAt("wait") = {}
    /\ \A p \in LogAt("sleep") :
           /\ p > 1 /\ ret.log[p - 1].op = "request"
           /\ ret.log[p - 1].arg \in RETRYABLE_STATUS_CODES
           /\ SleepsBefore(p) < call.retries
           /\ ret.log[p].arg = call.retry_backoff * Pow2(SleepsBefore(p))
    /\ \A p \in LogAt("request") :
           LET code == ret.log[p].arg
               retried == /\ code \in RETRYABLE_STATUS_CODES
                          /\ SleepsBefore(p) < call.retries
           IN  /\ retried =>
                     p < Len(ret.log) /\ ret.log[p + 1].op = "sleep"
               /\ (~retried /\ code # 200) =>
                     /\ p = Len(ret.log)
                     /\ ret.pc = "raised" /\ ret.error = code
               /\ code = 200 => p = Len(ret.log) /\ ret.pc = "returned"
    /\ ret.pc \in {"raised", "returned"} =>
           ret.log # <<>> /\ ret.log[Len(ret.log)].op = "request"

\* C28 as amended: _fetch_json makes at most max(retries, 0) + 1 requests
\* (one request even when retries is negative); it retries only after an
\* HTTPError whose status is in {429, 500, 502, 503, 504} while fewer than
\* retries retries have been made, sleeping retry_backoff * 2^k before
\* retry k+1; any other HTTPError, any URLError that is not an HTTPError
\* and the failure of the last allowed attempt reach the caller; the rate
\* limiter's wait comes before every attempt.
C28_FetchBounded ==
    call.op = "fetch" =>
        /\ RequestsMade(ret.log)
               <= (IF call.retries > 0 THEN call.retries ELSE 0) + 1
        /\ FetchLogAsClaimed

\* C28 as stated: at most retries + 1 requests are made, whatever the
\* value of retries.
C28_AtMostRetriesPlusOne ==
    call.op = "fetch" => RequestsMade(ret.log) <= call.retries + 1

\* Every allowed attempt was made and failed with a retryable status, with
\* the limiter in place: the last failure is raised.
C28_Witness ==
    /\ call.op = "fetch" /\ call.rate_limiter
    /\ call.retries = MaxRetries
    /\ ret.pc = "raised" /\ ret.error \in RETRYABLE_STATUS_CODES
    /\ RequestsMade(ret.log) = call.retries + 1
    /\ Cardinality(LogAt("sleep")) = call.retries

\* The blueprints that were given an event by _assign_session_events.
Carrying == {b \in DOMAIN ret.assignments : ret.assignments[b].event # 0}

\* C24: Moto3's _assign_session_events returns one (blueprint, event) pair
\* per SESSION_BLUEPRINTS entry, in blueprint order; no event goes to two
\* blueprints; exactly min(5, number of fixtures) pairs carry an event and
\* the others carry None; the caller's list is as it was.
C24_OnePairPerBlueprint ==
    (call.op = "assign" /\ ret.pc = "done") =>
        /\ Len(ret.assignments) = Len(SESSION_BLUEPRINTS)
        /\ \A b \in DOMAIN ret.assignments :
               /\ ret.assignments[b].spec = b
               /\ SESSION_BLUEPRINTS[b].index = b
               /\ ret.assignments[b].event \in {0} \cup DOMAIN call.fixtures
        /\ \A a, b \in Carrying :
               ret.assignments[a].event = ret.assignments[b].event => a = b
        /\ Cardinality(Carrying)
               = (IF Len(call.fixtures) < 5 THEN Len(call.fixtures) ELSE 5)
        /\ ret.fixtures = call.fixtures

\* A round of six events, one of them taken by a blueprint it does not
\* match, has gone through the loop.
C24_Witness ==
    /\ call.op = "assign" /\ ret.pc = "done"
    /\ Len(call.fixtures) = 6
    /\ Cardinality(Carrying) = 5
    /\ \E b \in Carrying :
           ~AliasHit[call.fixtures[ret.assignments[b].event]][b]

\* C30: whenever the round holds an event whose text matches a
\* blueprint's aliases, that blueprint is assigned an event matching its
\* aliases.
C30_MatchableBlueprintGetsItsMatch ==
    (call.op = "assign" /\ ret.pc = "done") =>
        \A b \in DOMAIN ret.assignments :
            (\E p \in DOMAIN call.fixtures : AliasHit[call.fixtures[p]][b]) =>
                /\ ret.assignments[b].event # 0
                /\ AliasHit[call.fixtures[ret.assignments[b].event]][b]

\* The rounds the UFC generator emitted as season entries.
UfcEmitted == {ret.seasons[p] : p \in DOMAIN ret.seasons}

\* The round numbers other than 0 that the events of the bulk feed carry.
UfcBulkRounds ==
    {IntRoundById[call.feed[p]].n :
         p \in {q \in DOMAIN call.feed : IntRoundById[call.feed[q]].keep}}

\* C23 as amended: in the UFC generator every round emitted as a season
\* entry is the round number of an event of the bulk feed or a round within
\* [round_start, round_stop] that the fill loop fetched; every round number
\* of the bulk feed is emitted, inside the range or not.
C23_EmittedFromBulkOrRange ==
    (call.op = "ufc" /\ ret.pc = "done") =>
        /\ \A n \in UfcEmitted :
               \/ n \in UfcBulkRounds
               \/ /\ ~call.skip_round_fill
                  /\ call.round_start <= n /\ n <= call.round_stop
        /\ UfcBulkRounds \subseteq UfcEmitted

\* C23 as stated: every round emitted by the UFC generator lies within
\* [round_start, round_stop].
C23_EmittedWithinRange ==
    (call.op = "ufc" /\ ret.pc = "done") =>
        \A n \in UfcEmitted :
            call.round_start <= n /\ n <= call.round_stop

\* A finished UFC run that emitted a round of the bulk feed and a round
\* that only the fill loop found.
C23_Witness ==
    /\ call.op = "ufc" /\ ret.pc = "done"
    /\ UfcBulkRounds # {}
    /\ \E n \in UfcEmitted : n \notin UfcBulkRounds

====
